---- MODULE Spec2Model ----
(***************************************************************************)
(* EarlySpring alarm client: the alarm scheduler (utils/alarmScheduler.ts), *)
(* the dashboard flows that drive it (AlarmDashboard, AlarmList, AlarmItem),*)
(* the ringing display (AlarmDisplay) and the plant-health update           *)
(* (userService.updatePlantHealth).                                         *)
(*                                                                          *)
(* Time.  An instant is a natural number counting sub-minute units since    *)
(* the midnight that starts a Sunday (Date.getDay() = 0): a day has         *)
(* MinPerDay minutes of SecPerMin units each.  alarm.time ("HH:MM") is the  *)
(* minute of the day it denotes; alarm.days is the set of getDay() numbers  *)
(* of its weekday names.  All computation is local wall-clock, as in the    *)
(* code; daylight-saving shifts are not modelled.                           *)
(***************************************************************************)
EXTENDS Integers, Sequences, FiniteSets, Bags, TLC

VARIABLES
  now,           \* the wall clock, new Date()
  db,            \* the persisted alarm documents of the user (alarms collection)
  alarms,        \* AlarmDashboard state `alarms`
  initialLoad,   \* AlarmDashboard ref `initialLoad`
  activeAlarms,  \* alarmScheduler module variable `activeAlarms`
  timers,        \* the browser's pending setTimeout timers armed by scheduleAlarm
  nextTimerId,   \* the next handle window.setTimeout returns
  activeAlarm,   \* AlarmDashboard state `activeAlarm` (the ringing session's alarm)
  alarmAudio,    \* AlarmDashboard state `alarmAudio` (the session's audio handle)
  displayState,  \* AlarmDisplay state `displayState`
  tapCount,      \* AlarmDisplay state `tapCount`
  playing,       \* the audio handles that are currently sounding
  nextAudio,     \* the next audio handle `new Audio()` creates
  plantHealth,   \* users collection: plantHealth of the signed-in user
  plantLevel,    \* users collection: plantLevel of the signed-in user
  inflight,      \* updatePlantHealth calls that have not settled yet
  feelTimers,    \* pending 500 ms timers of handleSleepFeelingSelect
  session,       \* number of the current ringing session (0: none fired yet)
  calls,         \* per session, the deltas handed to updatePlantHealth so far
  ended,         \* per session, the way its display was dismissed ("" while open)
  wakeUpEnabled, \* AlarmDisplay state `wakeUpEnabled`
  userOps,       \* number of dashboard operations performed so far
  lastApi,       \* the last direct call of a scheduler function and what it did
  lastWrite,     \* the last score update that was stored: what it read, added, stored
  permission,    \* Notification.permission
  createThrows,  \* whether this browser's Notification constructor throws on these options
  deferred,      \* the play attempts triggerAlarm has left behind: [audio, kind]
  volume,        \* per audio element, its volume property (a double)
  timerLog,      \* per timer handle: whether it ran triggerAlarm, whether its occurrence was removed
  lastTrigger,   \* the last run of triggerAlarm from a timer: how far it got
  probe          \* resolver harness: [alarm, now, result]

vars == <<now, db, alarms, initialLoad, activeAlarms, timers, nextTimerId,
          activeAlarm, alarmAudio, displayState, tapCount, playing, nextAudio,
          plantHealth, plantLevel, inflight, feelTimers, session, calls, ended,
          wakeUpEnabled, userOps, lastApi, lastWrite, permission,
          createThrows, lastTrigger, timerLog, deferred, volume, probe>>

(***************************************************************************)
(* Bounds of the model.                                                     *)
(***************************************************************************)
SecPerMin == 2
MinPerDay == 3
MaxIds == 2
MaxUserOps == 2
MaxPending == 2
MaxSnoozeTime == 12
MaxChain == 8

(***************************************************************************)
(* Program constants.                                                       *)
(***************************************************************************)
DaysPerWeek == 7
TapStart == 50
DefaultSnooze == 10
SnoozeDelta == 5
WakeDelta == 10
IgnoreDelta == 10
DefaultHealth == 100
MaxHealth == 100
LevelStep == 20

SecPerDay == MinPerDay * SecPerMin
Ids == 1 .. MaxIds
WeekDays == 0 .. (DaysPerWeek - 1)
Times == 0 .. (MinPerDay - 1)
nullTime == -1
NoId == 0

Min(S) == CHOOSE x \in S : \A y \in S : x <= y
Max2(a, b) == IF a >= b THEN a ELSE b
Min2(a, b) == IF a <= b THEN a ELSE b

(***************************************************************************)
(* Date arithmetic.                                                         *)
(***************************************************************************)
getDate(t) == t \div SecPerDay
getDay(t) == getDate(t) % DaysPerWeek
getMinuteOfDay(t) == (t % SecPerDay) \div SecPerMin
getSeconds(t) == t % SecPerMin
\* new Date(day).setHours(hours, minutes, 0, 0)
setHours(date, minuteOfDay) == (date * MinPerDay + minuteOfDay) * SecPerMin

isToday(day, t) == day = getDay(t)

\* The scan for (let i = 1; i <= 7; i++) returns at the first active weekday.
getNextAlarmTime_ge(alarm, t) ==
  LET today == getDate(t)
      alarmTime == setHours(today, alarm.time)
      later == {i \in 1 .. DaysPerWeek : ((today + i) % DaysPerWeek) \in alarm.days}
  IN  IF (\E day \in alarm.days : isToday(day, t)) /\ alarmTime >= t
      THEN alarmTime
      ELSE IF later = {} THEN nullTime
           ELSE setHours(today + Min(later), alarm.time)

getNextAlarmTime_noToday(alarm, t) ==
  LET today == getDate(t)
      later == {i \in 1 .. DaysPerWeek : ((today + i) % DaysPerWeek) \in alarm.days}
  IN  IF later = {} THEN nullTime
      ELSE setHours(today + Min(later), alarm.time)

getNextAlarmTime(alarm, t) ==
  LET today == getDate(t)
      alarmTime == setHours(today, alarm.time)
      later == {i \in 1 .. DaysPerWeek : ((today + i) % DaysPerWeek) \in alarm.days}
  IN  IF (\E day \in alarm.days : isToday(day, t)) /\ alarmTime > t
      THEN alarmTime
      ELSE IF later = {} THEN nullTime
           ELSE setHours(today + Min(later), alarm.time)

msUntil(targetTime, t) == Max2(0, targetTime - t)

(***************************************************************************)
(* Alarm documents.  `snoozed` counts the " (Snoozed)" suffixes of the      *)
(* label; `manual` is the _manuallyTriggered mark, `gradual` is             *)
(* raiseVolumeGradually.                                                    *)
(***************************************************************************)
NoAlarm == [id |-> NoId]

Alarm(id, time, days, isEnabled, snoozeTime, snoozeBehavior) ==
  [id |-> id, time |-> time, days |-> days, isEnabled |-> isEnabled,
   snoozeTime |-> snoozeTime, snoozeBehavior |-> snoozeBehavior,
   snoozed |-> 0, manual |-> FALSE, gradual |-> FALSE]

(***************************************************************************)
(* The timer registry.  A scheduler state S is the module variable          *)
(* activeAlarms together with the browser's timer table and handle counter. *)
(***************************************************************************)
Sched == [activeAlarms |-> activeAlarms, timers |-> timers, nextTimerId |-> nextTimerId]

\* Array.prototype.findIndex on the id; 0 stands for JavaScript's -1.
findIndex(list, id) ==
  LET hits == {i \in 1 .. Len(list) : list[i].id = id}
  IN  IF hits = {} THEN 0 ELSE Min(hits)

\* list.splice(index, 1)
splice(list, index) ==
  SubSeq(list, 1, index - 1) \o SubSeq(list, index + 1, Len(list))

clearTimeout(table, timerId) == {tm \in table : tm.timerId # timerId}

\* Mutation: the guard compares the whole documents.
areAlarmsEquivalent_deep(a, b) == a = b

areAlarmsEquivalent(a, b) ==
  /\ a.id = b.id
  /\ a.time = b.time
  /\ a.isEnabled = b.isEnabled
  /\ a.days = b.days

\* The entry and timer scheduleAlarm arms once the guards have passed.
armTimer(S, alarm, nextTime, t) ==
  LET delay == msUntil(nextTime, t)
      timerId == S.nextTimerId
  IN  [activeAlarms |-> Append(S.activeAlarms,
                          [id |-> alarm.id, timerId |-> timerId,
                           alarm |-> alarm, scheduledTime |-> nextTime]),
       timers |-> S.timers \cup {[timerId |-> timerId, alarm |-> alarm, due |-> t + delay]},
       nextTimerId |-> timerId + 1]

\* Mutation: the existing entry is kept when the alarm is scheduled again.
scheduleAlarm_keepOld(S, alarm, t) ==
  IF ~alarm.isEnabled THEN S
  ELSE IF alarm.id = NoId THEN S
  ELSE LET nextTime == getNextAlarmTime(alarm, t) IN
    IF nextTime = nullTime THEN S
    ELSE LET existingAlarmIndex == findIndex(S.activeAlarms, alarm.id) IN
      IF /\ existingAlarmIndex # 0
         /\ areAlarmsEquivalent(S.activeAlarms[existingAlarmIndex].alarm, alarm)
         /\ S.activeAlarms[existingAlarmIndex].scheduledTime = nextTime
      THEN S
      ELSE armTimer(S, alarm, nextTime, t)

\* Mutation: no idempotency guard, every call cancels and re-arms.
scheduleAlarm_noGuard(S, alarm, t) ==
  IF ~alarm.isEnabled THEN S
  ELSE IF alarm.id = NoId THEN S
  ELSE LET nextTime == getNextAlarmTime(alarm, t) IN
    IF nextTime = nullTime THEN S
    ELSE LET existingAlarmIndex == findIndex(S.activeAlarms, alarm.id)
             S1 == IF existingAlarmIndex # 0
                   THEN [S EXCEPT
                           !.timers = clearTimeout(@, S.activeAlarms[existingAlarmIndex].timerId),
                           !.activeAlarms = splice(@, existingAlarmIndex)]
                   ELSE S
         IN  armTimer(S1, alarm, nextTime, t)

\* Mutation: the replaced occurrence keeps its timer.
scheduleAlarm_noClear(S, alarm, t) ==
  IF ~alarm.isEnabled THEN S
  ELSE IF alarm.id = NoId THEN S
  ELSE LET nextTime == getNextAlarmTime(alarm, t) IN
    IF nextTime = nullTime THEN S
    ELSE LET existingAlarmIndex == findIndex(S.activeAlarms, alarm.id) IN
      IF /\ existingAlarmIndex # 0
         /\ areAlarmsEquivalent(S.activeAlarms[existingAlarmIndex].alarm, alarm)
         /\ S.activeAlarms[existingAlarmIndex].scheduledTime = nextTime
      THEN S
      ELSE LET S1 == IF existingAlarmIndex # 0
                     THEN [S EXCEPT !.activeAlarms = splice(@, existingAlarmIndex)]
                     ELSE S
           IN  armTimer(S1, alarm, nextTime, t)

\* Mutation: a disabled alarm has its occurrence removed.
scheduleAlarm_dropDisabled(S, alarm, t) ==
  LET existingAlarmIndex == findIndex(S.activeAlarms, alarm.id) IN
  IF ~alarm.isEnabled
  THEN IF existingAlarmIndex # 0
       THEN [S EXCEPT !.timers = clearTimeout(@, S.activeAlarms[existingAlarmIndex].timerId),
                      !.activeAlarms = splice(@, existingAlarmIndex)]
       ELSE S
  ELSE IF alarm.id = NoId THEN S
  ELSE LET nextTime == getNextAlarmTime(alarm, t) IN
    IF nextTime = nullTime THEN S
    ELSE IF /\ existingAlarmIndex # 0
            /\ areAlarmsEquivalent(S.activeAlarms[existingAlarmIndex].alarm, alarm)
            /\ S.activeAlarms[existingAlarmIndex].scheduledTime = nextTime
      THEN S
      ELSE LET S1 == IF existingAlarmIndex # 0
                     THEN [S EXCEPT
                             !.timers = clearTimeout(@, S.activeAlarms[existingAlarmIndex].timerId),
                             !.activeAlarms = splice(@, existingAlarmIndex)]
                     ELSE S
           IN  armTimer(S1, alarm, nextTime, t)

scheduleAlarm(S, alarm, t) ==
  IF ~alarm.isEnabled THEN S
  ELSE IF alarm.id = NoId THEN S
  ELSE LET nextTime == getNextAlarmTime(alarm, t) IN
    IF nextTime = nullTime THEN S
    ELSE LET existingAlarmIndex == findIndex(S.activeAlarms, alarm.id) IN
      IF /\ existingAlarmIndex # 0
         /\ areAlarmsEquivalent(S.activeAlarms[existingAlarmIndex].alarm, alarm)
         /\ S.activeAlarms[existingAlarmIndex].scheduledTime = nextTime
      THEN S
      ELSE LET S1 == IF existingAlarmIndex # 0
                     THEN [S EXCEPT
                             !.timers = clearTimeout(@, S.activeAlarms[existingAlarmIndex].timerId),
                             !.activeAlarms = splice(@, existingAlarmIndex)]
                     ELSE S
           IN  armTimer(S1, alarm, nextTime, t)

\* cancelAlarm without its clearTimeout.
cancelAlarm_keepTimer(S, alarmId) ==
  LET index == findIndex(S.activeAlarms, alarmId) IN
  IF index # 0 THEN [S EXCEPT !.activeAlarms = splice(@, index)] ELSE S

cancelAlarm(S, alarmId) ==
  LET index == findIndex(S.activeAlarms, alarmId) IN
  IF index # 0
  THEN [S EXCEPT !.timers = clearTimeout(@, S.activeAlarms[index].timerId),
                 !.activeAlarms = splice(@, index)]
  ELSE S

\* Mutation: the sweep keeps what is armed.
cancelAllAlarms_none(S) == S

cancelAllAlarms(S) ==
  [S EXCEPT !.timers = {tm \in @ : \A i \in 1 .. Len(S.activeAlarms) :
                                      S.activeAlarms[i].timerId # tm.timerId},
            !.activeAlarms = <<>>]

RECURSIVE scheduleEach(_, _, _)
scheduleEach(S, list, t) ==
  IF list = <<>> THEN S
  ELSE scheduleEach(IF Head(list).isEnabled THEN scheduleAlarm(S, Head(list), t) ELSE S,
                    Tail(list), t)

scheduleAllAlarms(S, list, t) == scheduleEach(cancelAllAlarms(S), list, t)

\* triggerAlarm lines 266-275: drop the consumed entry and arm the next occurrence.
rearmAfterTrigger_skip(S, alarm, t) == S

rearmAfterTrigger(S, alarm, t) ==
  IF alarm.id # NoId /\ ~alarm.manual
  THEN LET index == findIndex(S.activeAlarms, alarm.id)
           S1 == IF index # 0 THEN [S EXCEPT !.activeAlarms = splice(@, index)] ELSE S
       IN  scheduleAlarm(S1, alarm, t)
  ELSE S

(***************************************************************************)
(* Persistence and the plant-health update.                                 *)
(***************************************************************************)
NoHealth == -1

\* getUserAlarms: the user's documents sorted by time ascending (ties in id order).
RECURSIVE sortByTime(_)
sortByTime(docs) ==
  IF docs = {} THEN <<>>
  ELSE LET first == CHOOSE a \in docs :
                      \A b \in docs : a.time < b.time \/ (a.time = b.time /\ a.id <= b.id)
       IN  <<first>> \o sortByTime(docs \ {first})

getUserAlarms(docs) == sortByTime(docs)

\* Mutation: the sum is stored without the clamp.
newHealthOf_noClamp(health, healthChange) ==
  LET current == IF health = NoHealth \/ health = 0 THEN DefaultHealth ELSE health
  IN  current + healthChange

\* updatePlantHealth: (user.plantHealth || 100) + healthChange, clamped to 0..100.
newHealthOf(health, healthChange) ==
  LET current == IF health = NoHealth \/ health = 0 THEN DefaultHealth ELSE health
  IN  Max2(0, Min2(MaxHealth, current + healthChange))

\* Math.ceil(newHealth / 20)
newLevelOf(newHealth) == (newHealth + LevelStep - 1) \div LevelStep

\* An updatePlantHealth call in flight: `phase` is the await it is suspended at.
HealthCall(kind, healthChange, snoozeCopy, sid, t) ==
  [kind |-> kind, healthChange |-> healthChange, phase |-> "get",
   read |-> NoHealth, newHealth |-> NoHealth, snoozeAlarm |-> snoozeCopy, sid |-> sid,
   calledAt |-> t]

(***************************************************************************)
(* snoozeAlarm lines 332-351: the temporary alarm for the snooze.           *)
(***************************************************************************)
snoozeMinutesOf(alarm) == IF alarm.snoozeTime = 0 THEN DefaultSnooze ELSE alarm.snoozeTime

shortened_ceil(snoozeTime) == Max2(1, (snoozeTime * 8 + 9) \div 10)

\* Math.max(1, Math.floor(alarm.snoozeTime * 0.8))
shortened(snoozeTime) == Max2(1, (snoozeTime * 8) \div 10)

\* Mutation: every behaviour but "repeat" shortens the snooze.
snoozeCopyOf_notRepeat(alarm, t) ==
  LET snoozeTime == t + snoozeMinutesOf(alarm) * SecPerMin
      copy == [alarm EXCEPT !.time = getMinuteOfDay(snoozeTime), !.snoozed = @ + 1]
  IN  IF alarm.snoozeBehavior # "repeat" /\ alarm.snoozeTime # 0
      THEN [copy EXCEPT !.snoozeTime = shortened(alarm.snoozeTime)]
      ELSE copy

snoozeCopyOf(alarm, t) ==
  LET snoozeTime == t + snoozeMinutesOf(alarm) * SecPerMin
      copy == [alarm EXCEPT !.time = getMinuteOfDay(snoozeTime), !.snoozed = @ + 1]
  IN  IF alarm.snoozeBehavior = "repeat_shorten" /\ alarm.snoozeTime # 0
      THEN [copy EXCEPT !.snoozeTime = shortened(alarm.snoozeTime)]
      ELSE copy

(***************************************************************************)
(* AlarmDashboard effects that follow setAlarms(list) (lines 128-171).      *)
(***************************************************************************)
afterSetAlarms(S, list, oldLength, first, t) ==
  LET S1 == IF Len(list) # 0 /\ first THEN scheduleAllAlarms(S, list, t) ELSE S
  IN  IF Len(list) # 0 /\ Len(list) # oldLength THEN scheduleAllAlarms(S1, list, t) ELSE S1

(***************************************************************************)
(* Initial states: the dashboard is mounted and signed in, the display      *)
(* callback is registered, no alarm list has been loaded yet.               *)
(***************************************************************************)
\* The clock is followed for one day; fire instants may lie beyond it.
MaxNow == SecPerDay

FirstAlarms ==
  {Alarm(1, time, days, TRUE, 1, "repeat") : time \in Times, days \in {{0}, WeekDays}}

OtherAlarms(id) ==
  {Alarm(id, 0, days, isEnabled, 1, "repeat") : days \in {WeekDays}, isEnabled \in BOOLEAN}

InitDbs ==
  {{a} : a \in FirstAlarms} \cup
  {{a, b} : a \in FirstAlarms, b \in UNION {OtherAlarms(id) : id \in Ids \ {1}}}

NoCall == [op |-> "", alarm |-> NoAlarm, armed |-> FALSE, changed |-> FALSE]

NoWrite == [read |-> NoHealth, healthChange |-> 0, stored |-> NoHealth]

Permissions == {"granted", "denied", "default"}

NoTrigger == [permission |-> "", notification |-> "", callback |-> FALSE, rearmed |-> FALSE,
              steps |-> <<>>]

\* No timer has run and no occurrence has been removed.
NoLog == [fired |-> EmptyBag, removed |-> {}]

NoProbe == [alarm |-> NoAlarm, now |-> 0, result |-> nullTime, done |-> FALSE]

\* Everything but the persisted score.
InitCore ==
  /\ now = 0
  /\ alarms = <<>>
  /\ initialLoad = TRUE
  /\ activeAlarms = <<>>
  /\ timers = {}
  /\ nextTimerId = 1
  /\ activeAlarm = NoAlarm
  /\ alarmAudio = 0
  /\ displayState = "initial"
  /\ tapCount = TapStart
  /\ wakeUpEnabled = FALSE
  /\ playing = {}
  /\ nextAudio = 1
  /\ inflight = <<>>
  /\ feelTimers = <<>>
  /\ session = 0
  /\ calls = <<>>
  /\ ended = <<>>
  /\ userOps = 0
  /\ lastApi = NoCall
  /\ lastWrite = NoWrite
  /\ lastTrigger = NoTrigger
  /\ timerLog = NoLog
  /\ deferred = {}
  /\ volume = <<>>
  /\ createThrows \in BOOLEAN

\* The user has allowed notifications, as the dashboard asks on mount.
InitEngine ==
  /\ InitCore
  /\ plantHealth = 70
  /\ plantLevel = 4
  /\ permission = "granted"

Init ==
  /\ InitEngine
  /\ db \in InitDbs
  /\ probe = NoProbe

(***************************************************************************)
(* The clock and the timers.                                                *)
(***************************************************************************)
\* Time passes.  An expired timer may run late: setTimeout is a lower bound.
Tick ==
  /\ now < MaxNow
  /\ now' = now + 1
  /\ UNCHANGED <<db, alarms, initialLoad, activeAlarms, timers, nextTimerId,
                 activeAlarm, alarmAudio, displayState, tapCount, playing, nextAudio,
                 plantHealth, plantLevel, inflight, feelTimers, session, calls, ended,
                 wakeUpEnabled, userOps, probe, lastApi, lastWrite,
                 permission, createThrows, lastTrigger, timerLog, deferred, volume>>

\* The handles of the occurrences a registry holds.
handlesOf(list) == {list[i].timerId : i \in 1 .. Len(list)}

\* The registry and the timer table become S, in a step in which the timers with the
\* handles `ran` invoked triggerAlarm.  A handle whose occurrence leaves the registry
\* before its timer ran, also one issued earlier in the same step, is noted as removed.
setSchedAfter(S, ran) ==
  /\ activeAlarms' = S.activeAlarms
  /\ timers' = S.timers
  /\ nextTimerId' = S.nextTimerId
  /\ timerLog' = [fired |-> timerLog.fired (+) SetToBag(ran),
                  removed |-> timerLog.removed \cup
                    (((handlesOf(activeAlarms) \cup (nextTimerId .. (S.nextTimerId - 1)))
                        \ handlesOf(S.activeAlarms))
                       \ (ran \cup BagToSet(timerLog.fired)))]

setSched(S) == setSchedAfter(S, {})

\* AlarmDashboard.handleDismissAlarm followed by the unmount of AlarmDisplay.
closeDisplay(audio) ==
  /\ playing' = (playing \ {audio}) \ {alarmAudio}
  /\ alarmAudio' = 0
  /\ activeAlarm' = NoAlarm
  /\ displayState' = "initial"
  /\ tapCount' = TapStart
  /\ wakeUpEnabled' = FALSE

\* showAlarmNotification: what the call does under the permission, and when the
\* Notification constructor throws.
showAlarmNotification(perm, createFails) ==
  IF perm = "granted" THEN (IF createFails THEN "throws" ELSE "shown")
  ELSE IF perm = "denied" THEN "skipped"
  ELSE "requested"

\* The play attempts triggerAlarm leaves for an audio element: the canplaythrough
\* listener ({once: true}) and the 1-second timer.
playAttemptsOf(audio) ==
  {[audio |-> audio, kind |-> kind] : kind \in {"canplaythrough", "timeout"}}

(***************************************************************************)
(* The volume ramp.  The values the ramp takes are IEEE-754 doubles close   *)
(* to the tenths; Double(k, e) is the real number k/10 + e * 2^-56 / 10.    *)
(* Integers here are 32-bit, so the 2^56 is only ever used modulo a grid.   *)
(***************************************************************************)
Double(k, e) == [k |-> k, e |-> e]

\* The literal 0.1 (0x1.999999999999ap-4) and the literal 1.0.
Tenth == Double(1, 4)

One == Double(10, 0)

RECURSIVE pow2mod(_, _)
pow2mod(n, m) == IF n = 0 THEN 1 % m ELSE (2 * pow2mod(n - 1, m)) % m

\* x >= n/8, for a real x = k/10 + e * 2^-56 / 10 with a small e.
atLeastEighths(x, n) == 8 * x.k > 10 * n \/ (8 * x.k = 10 * n /\ x.e >= 0)

\* The distance between neighbouring doubles at x, in units of 2^-56 / 10:
\* 2^-52 from 1 up, 2^-53 from 1/2, 2^-54 from 1/4, 2^-55 from 1/8, 2^-56 below.
spacing(x) ==
  IF atLeastEighths(x, 8) THEN 160
  ELSE IF atLeastEighths(x, 4) THEN 80
  ELSE IF atLeastEighths(x, 2) THEN 40
  ELSE IF atLeastEighths(x, 1) THEN 20
  ELSE 10

\* Round the real x to the nearest double, ties to the even mantissa.
roundToDouble(x) ==
  LET G == spacing(x)
      r2 == (x.k * pow2mod(56, 2 * G) + x.e + 64 * G) % (2 * G)
      r == r2 % G
      odd == r2 >= G
  IN  IF 2 * r < G \/ (2 * r = G /\ ~odd)
      THEN Double(x.k, x.e - r)
      ELSE Double(x.k, x.e + (G - r))

\* x + y in double arithmetic.
fadd(x, y) == roundToDouble(Double(x.k + y.k, x.e + y.e))

\* Mutation: the ramp stops below the last level.
leq1_early(x) == x.k < 10

\* vol <= 1
leq1(x) == x.k < 10 \/ (x.k = 10 /\ x.e <= 0)

\* The volume as a whole percentage, Math.round(100 * x): the distance e of x from
\* its tenth stays below 2^-52, far less than half a percent.
percentOf(x) == 10 * x.k

\* The interval timer of the ramp with its closure variable `vol`.
rampOf(audio, vol) == [audio |-> audio, kind |-> "ramp", vol |-> vol]

\* The element loading one source of the fallback chain: "requested" is
\* /public/sounds/<alarm.sound>.mp3 (baby_waltz when the alarm names none), "default"
\* is /sounds/baby_waltz.mp3, "tone" is the 800 Hz oscillator with its 1-second stop
\* timer.
loadOf(audio, source) == [audio |-> audio, kind |-> "load", source |-> source]

\* The announcement triggerAlarm starts without awaiting it, for the firing that
\* created the audio element `audio`.
speechOf(audio) == [audio |-> audio, kind |-> "speech"]

\* A timer armed by scheduleAlarm expires: triggerAlarm(alarm), which has no await.
\* The audio is set up first and starts at a later play attempt; an exception of
\* showAlarmNotification leaves the
\* function before the display callback, the announcement and the re-arm.
triggerSteps(alarm, fired, ran, createFails) ==
  LET notification == showAlarmNotification(permission, createFails)
      S == IF notification = "throws" THEN fired ELSE rearmAfterTrigger(fired, alarm, now)
  IN  /\ setSchedAfter(S, ran)
      /\ deferred' = deferred \cup playAttemptsOf(nextAudio) \cup {loadOf(nextAudio, "requested")} \cup
                        (IF alarm.gradual THEN {rampOf(nextAudio, Tenth)} ELSE {}) \cup
                        (IF notification = "throws" THEN {} ELSE {speechOf(nextAudio)})
      /\ volume' = Append(volume, IF alarm.gradual THEN Tenth ELSE One)
      /\ nextAudio' = nextAudio + 1
      /\ lastTrigger' = [permission |-> permission, notification |-> notification,
                         callback |-> notification # "throws",
                         steps |-> IF notification = "throws"
                                   THEN <<"audio", "notification">>
                                   ELSE <<"audio", "notification", "callback", "speak", "rearm">>,
                         rearmed |-> \E i \in 1 .. Len(S.activeAlarms) :
                                       /\ S.activeAlarms[i].id = alarm.id
                                       /\ S.activeAlarms[i].scheduledTime > now
                                       /\ S.activeAlarms[i].timerId >= nextTimerId]
      /\ IF notification = "throws"
         THEN UNCHANGED <<activeAlarm, alarmAudio, session, calls, ended>>
         ELSE /\ activeAlarm' = alarm
              /\ alarmAudio' = nextAudio
              /\ session' = session + 1
              /\ calls' = Append(calls, <<>>)
              /\ ended' = Append(IF activeAlarm # NoAlarm
                                 THEN [ended EXCEPT ![session] = "replaced"] ELSE ended, "")
      /\ UNCHANGED <<now, db, alarms, initialLoad, displayState, tapCount, wakeUpEnabled,
                     plantHealth, plantLevel, inflight, feelTimers, probe, lastApi,
                     lastWrite, permission, createThrows, playing>>

\* The timer callback of scheduleAlarm (line 130): the expired timer leaves the
\* browser's table and triggerAlarm runs on the alarm it was armed with.
triggerAlarm(tm, createFails) ==
  /\ triggerSteps(tm.alarm, [Sched EXCEPT !.timers = @ \ {tm}], {tm.timerId}, createFails)
  /\ UNCHANGED userOps

TimerFire ==
  \E tm \in timers :
    /\ tm.due <= now
    /\ triggerAlarm(tm, createThrows)

\* One of the play attempts runs: audio.play() starts the element, or its promise
\* rejects (autoplay policy, no source) and the element stays silent.
PlayAttempt ==
  \E attempt \in deferred, started \in BOOLEAN :
    /\ attempt.kind \in {"canplaythrough", "timeout"}
    /\ deferred' = deferred \ {attempt}
    /\ playing' = IF started THEN playing \cup {attempt.audio} ELSE playing
    /\ UNCHANGED <<now, db, alarms, initialLoad, activeAlarms, timers, nextTimerId,
                   activeAlarm, alarmAudio, displayState, tapCount, nextAudio,
                   plantHealth, plantLevel, inflight, feelTimers, session, calls, ended,
                   wakeUpEnabled, userOps, probe, lastApi, lastWrite,
                   permission, createThrows, lastTrigger, timerLog, volume>>

\* The ramp's interval callback (every 3000 ms): vol += 0.1; the element's volume
\* follows while vol <= 1, otherwise the interval is cleared.
rampTick(attempt) ==
  /\ attempt.kind = "ramp"
  /\ LET vol == fadd(attempt.vol, Tenth)
     IN  IF leq1(vol)
         THEN /\ volume' = [volume EXCEPT ![attempt.audio] = vol]
              /\ deferred' = (deferred \ {attempt}) \cup {rampOf(attempt.audio, vol)}
         ELSE /\ deferred' = deferred \ {attempt}
              /\ UNCHANGED volume
  /\ UNCHANGED <<now, db, alarms, initialLoad, activeAlarms, timers, nextTimerId,
                 activeAlarm, alarmAudio, displayState, tapCount, playing, nextAudio,
                 plantHealth, plantLevel, inflight, feelTimers, session, calls, ended,
                 wakeUpEnabled, userOps, probe, lastApi, lastWrite,
                 permission, createThrows, lastTrigger, timerLog>>

RampTick == \E attempt \in deferred : rampTick(attempt)

\* Mutation: the first onerror handler goes straight to the oscillator.
sourceSettles_skipDefault(attempt, outcome) ==
  /\ attempt.kind = "load"
  /\ deferred' = (deferred \ {attempt}) \cup
                   (IF outcome = "error" /\ attempt.source = "requested"
                    THEN {loadOf(attempt.audio, "tone")} ELSE {})
  /\ UNCHANGED <<now, db, alarms, initialLoad, activeAlarms, timers, nextTimerId,
                 activeAlarm, alarmAudio, displayState, tapCount, playing, nextAudio,
                 plantHealth, plantLevel, inflight, feelTimers, session, calls, ended,
                 wakeUpEnabled, userOps, probe, lastApi, lastWrite,
                 permission, createThrows, lastTrigger, timerLog, volume>>

\* The load of the element's current source ends.  "loaded": nothing more is tried
\* (for the oscillator: its stop timer ran).  "error": the onerror handler of lines
\* 176-196 runs; after the requested sound it sets the default sound, after the
\* default sound it starts the oscillator; "no tone": as "error", and creating the
\* oscillator throws into the handler's own catch.
sourceSettles(attempt, outcome) ==
  /\ attempt.kind = "load"
  /\ outcome \in IF attempt.source = "tone" THEN {"loaded"}
                 ELSE IF attempt.source = "default" THEN {"loaded", "error", "no tone"}
                 ELSE {"loaded", "error"}
  /\ deferred' = (deferred \ {attempt}) \cup
                   (IF outcome = "error" /\ attempt.source = "requested"
                    THEN {loadOf(attempt.audio, "default")}
                    ELSE IF outcome = "error" /\ attempt.source = "default"
                    THEN {loadOf(attempt.audio, "tone")}
                    ELSE {})
  /\ UNCHANGED <<now, db, alarms, initialLoad, activeAlarms, timers, nextTimerId,
                 activeAlarm, alarmAudio, displayState, tapCount, playing, nextAudio,
                 plantHealth, plantLevel, inflight, feelTimers, session, calls, ended,
                 wakeUpEnabled, userOps, probe, lastApi, lastWrite,
                 permission, createThrows, lastTrigger, timerLog, volume>>

LoadOutcomes == {"loaded", "error", "no tone"}

SourceSettles ==
  \E attempt \in deferred, outcome \in LoadOutcomes : sourceSettles(attempt, outcome)

\* How speakAlarmNotification can end: spoken, or one of its failures.
SpeechFailures == {"proxy error", "synthesis error", "unsupported"}

SpeechOutcomes == {"spoken"} \cup SpeechFailures

\* Mutation: a failed announcement stops the audio and closes the display.
speechSettles_abort(attempt, outcome) ==
  /\ attempt.kind = "speech"
  /\ deferred' = deferred \ {attempt}
  /\ IF outcome \in SpeechFailures
     THEN closeDisplay(attempt.audio)
     ELSE UNCHANGED <<activeAlarm, alarmAudio, displayState, tapCount, playing, wakeUpEnabled>>
  /\ UNCHANGED <<now, db, alarms, initialLoad, activeAlarms, timers, nextTimerId,
                 nextAudio, plantHealth, plantLevel, inflight, feelTimers, session, calls,
                 ended, userOps, probe, lastApi, lastWrite,
                 permission, createThrows, lastTrigger, timerLog, volume>>

\* The promise of speakAlarmNotification settles; speakText has caught every error
\* and triggerAlarm's .catch handles the rest.
speechSettles(attempt, outcome) ==
  /\ attempt.kind = "speech"
  /\ deferred' = deferred \ {attempt}
  /\ UNCHANGED <<now, db, alarms, initialLoad, activeAlarms, timers, nextTimerId,
                 activeAlarm, alarmAudio, displayState, tapCount, playing, nextAudio,
                 plantHealth, plantLevel, inflight, feelTimers, session, calls, ended,
                 wakeUpEnabled, userOps, probe, lastApi, lastWrite,
                 permission, createThrows, lastTrigger, timerLog, volume>>

SpeechSettles ==
  \E attempt \in deferred, outcome \in SpeechOutcomes : speechSettles(attempt, outcome)

(***************************************************************************)
(* AlarmDisplay handlers.                                                   *)
(***************************************************************************)
\* dismissAlarm(alarm, userId, didWakeUp, audio) up to its await.
startDismiss(didWakeUp, audio, sid) ==
  /\ inflight' = Append(inflight,
        HealthCall("dismiss", IF didWakeUp THEN WakeDelta ELSE 0 - IgnoreDelta, NoAlarm, sid, now))
  /\ calls' = [calls EXCEPT ![sid] = Append(@, IF didWakeUp THEN WakeDelta ELSE 0 - IgnoreDelta)]

HandleWakeUp ==
  /\ activeAlarm # NoAlarm
  /\ displayState = "initial" \/ (displayState = "snooze" /\ wakeUpEnabled)
  /\ Len(inflight) < MaxPending
  /\ displayState' = "wakeup"
  /\ startDismiss(TRUE, alarmAudio, session)
  /\ playing' = playing \ {alarmAudio}
  /\ UNCHANGED <<now, db, alarms, initialLoad, activeAlarms, timers, nextTimerId,
                 activeAlarm, alarmAudio, tapCount, nextAudio, plantHealth, plantLevel,
                 feelTimers, session, ended, wakeUpEnabled, userOps, probe, lastApi, lastWrite,
                 permission, createThrows, lastTrigger, timerLog, deferred, volume>>

HandleSnooze ==
  /\ activeAlarm # NoAlarm
  /\ displayState \in {"initial", "snooze"}
  /\ Len(inflight) < MaxPending
  /\ userOps < MaxUserOps
  /\ userOps' = userOps + 1
  /\ inflight' = Append(inflight,
        HealthCall("snooze", 0 - SnoozeDelta, snoozeCopyOf(activeAlarm, now), session, now))
  /\ calls' = [calls EXCEPT ![session] = Append(@, 0 - SnoozeDelta)]
  /\ ended' = [ended EXCEPT ![session] = "snooze"]
  /\ closeDisplay(alarmAudio)
  /\ UNCHANGED <<now, db, alarms, initialLoad, activeAlarms, timers, nextTimerId,
                 nextAudio, plantHealth, plantLevel, feelTimers, session, probe, lastApi, lastWrite,
                 permission, createThrows, lastTrigger, timerLog, deferred, volume>>

\* The Ignore button: the first tap opens the tap screen, the taps there count down.
HandleIgnoreAlarm ==
  /\ activeAlarm # NoAlarm
  /\ \/ /\ displayState = "initial"
        /\ displayState' = "snooze"
        /\ tapCount' = TapStart
        /\ UNCHANGED <<activeAlarm, alarmAudio, playing, wakeUpEnabled, inflight, calls, ended, lastApi>>
     \/ /\ displayState = "snooze"
        /\ tapCount - 1 > 0
        /\ tapCount' = tapCount - 1
        /\ UNCHANGED <<displayState, activeAlarm, alarmAudio, playing, wakeUpEnabled,
                       inflight, calls, ended, lastApi>>
     \/ /\ displayState = "snooze"
        /\ tapCount - 1 <= 0
        /\ Len(inflight) < MaxPending
        /\ startDismiss(FALSE, alarmAudio, session)
        /\ ended' = [ended EXCEPT ![session] = "ignore"]
        /\ closeDisplay(alarmAudio)
  /\ UNCHANGED <<now, db, alarms, initialLoad, activeAlarms, timers, nextTimerId,
                 nextAudio, plantHealth, plantLevel, feelTimers, session, userOps, probe, lastApi, lastWrite,
                 permission, createThrows, lastTrigger, timerLog, deferred, volume>>

\* The 5 s timer set on entering the tap screen.
EnableWakeUp ==
  /\ activeAlarm # NoAlarm
  /\ displayState = "snooze"
  /\ ~wakeUpEnabled
  /\ wakeUpEnabled' = TRUE
  /\ UNCHANGED <<now, db, alarms, initialLoad, activeAlarms, timers, nextTimerId,
                 activeAlarm, alarmAudio, displayState, tapCount, playing, nextAudio,
                 plantHealth, plantLevel, inflight, feelTimers, session, calls, ended,
                 userOps, probe, lastApi, lastWrite,
                 permission, createThrows, lastTrigger, timerLog, deferred, volume>>

HandleSleepFeelingSelect ==
  /\ activeAlarm # NoAlarm
  /\ displayState = "wakeup"
  /\ Len(feelTimers) < MaxPending
  /\ feelTimers' = Append(feelTimers, [audio |-> alarmAudio, sid |-> session])
  /\ UNCHANGED <<now, db, alarms, initialLoad, activeAlarms, timers, nextTimerId,
                 activeAlarm, alarmAudio, displayState, tapCount, playing, nextAudio,
                 plantHealth, plantLevel, inflight, session, calls, ended,
                 wakeUpEnabled, userOps, probe, lastApi, lastWrite,
                 permission, createThrows, lastTrigger, timerLog, deferred, volume>>

\* The 500 ms timer of handleSleepFeelingSelect: handleDismiss(true).
FeelTimerFire ==
  /\ feelTimers # <<>>
  /\ Len(inflight) < MaxPending
  /\ LET ft == Head(feelTimers) IN
       /\ startDismiss(TRUE, ft.audio, ft.sid)
       /\ ended' = IF ended[ft.sid] = "" THEN [ended EXCEPT ![ft.sid] = "confirm"]
                   ELSE IF activeAlarm # NoAlarm /\ ended[session] = ""
                        THEN [ended EXCEPT ![session] = "closed"] ELSE ended
       /\ closeDisplay(ft.audio)
  /\ feelTimers' = Tail(feelTimers)
  /\ UNCHANGED <<now, db, alarms, initialLoad, activeAlarms, timers, nextTimerId,
                 nextAudio, plantHealth, plantLevel, session, userOps, probe, lastApi, lastWrite,
                 permission, createThrows, lastTrigger, timerLog, deferred, volume>>

(***************************************************************************)
(* updatePlantHealth: getUserById resolves, then updateOneDocument          *)
(* resolves, then the caller continues; either request may reject.          *)
(***************************************************************************)
removeAt(list, i) == SubSeq(list, 1, i - 1) \o SubSeq(list, i + 1, Len(list))

HealthGet ==
  \E i \in 1 .. Len(inflight) :
    /\ inflight[i].phase = "get"
    /\ inflight' = [inflight EXCEPT ![i].phase = "put",
                                    ![i].read = plantHealth,
                                    ![i].newHealth = newHealthOf(plantHealth, inflight[i].healthChange)]
    /\ UNCHANGED <<now, db, alarms, initialLoad, activeAlarms, timers, nextTimerId,
                   activeAlarm, alarmAudio, displayState, tapCount, playing, nextAudio,
                   plantHealth, plantLevel, feelTimers, session, calls, ended,
                   wakeUpEnabled, userOps, probe, lastApi, lastWrite,
                 permission, createThrows, lastTrigger, timerLog, deferred, volume>>

\* Mutation: dismissAlarm cancels what is armed once its update has returned.
afterHealth_cancel(S, call, t) ==
  IF call.kind = "snooze" THEN scheduleAlarm(S, call.snoozeAlarm, t) ELSE cancelAllAlarms(S)

\* What snoozeAlarm does once `await updatePlantHealth(userId, -5)` has returned.
afterHealth(S, call, t) ==
  IF call.kind = "snooze" THEN scheduleAlarm(S, call.snoozeAlarm, t) ELSE S

\* updateOneDocument of call i resolves and the caller runs to its end.
putCall(i) ==
  /\ inflight[i].phase = "put"
  /\ plantHealth' = inflight[i].newHealth
  /\ plantLevel' = newLevelOf(inflight[i].newHealth)
  /\ inflight' = removeAt(inflight, i)
  /\ lastWrite' = [read |-> inflight[i].read, healthChange |-> inflight[i].healthChange,
                   stored |-> inflight[i].newHealth]
  /\ setSched(afterHealth(Sched, inflight[i], now))
  /\ UNCHANGED <<now, db, alarms, initialLoad, activeAlarm, alarmAudio, displayState,
                 tapCount, playing, nextAudio, feelTimers, session, calls, ended,
                 wakeUpEnabled, userOps, probe, lastApi,
                 permission, createThrows, lastTrigger, deferred, volume>>

HealthPut == \E i \in 1 .. Len(inflight) : putCall(i)

\* A request of the call rejects: the exception leaves snoozeAlarm / dismissAlarm.
rejectCall(i) ==
  /\ inflight' = removeAt(inflight, i)
  /\ UNCHANGED <<now, db, alarms, initialLoad, activeAlarms, timers, nextTimerId,
                 activeAlarm, alarmAudio, displayState, tapCount, playing, nextAudio,
                 plantHealth, plantLevel, feelTimers, session, calls, ended,
                 wakeUpEnabled, userOps, probe, lastApi, lastWrite,
                 permission, createThrows, lastTrigger, timerLog, deferred, volume>>

HealthReject == \E i \in 1 .. Len(inflight) : rejectCall(i)

(***************************************************************************)
(* Dashboard flows.  The persistence calls of one flow are taken as one     *)
(* step: the flow's effect on the registry is the same at whatever instant  *)
(* its last request resolves.                                               *)
(***************************************************************************)
setAlarms(list) ==
  LET S == afterSetAlarms(Sched, list, Len(alarms), initialLoad, now) IN
    /\ alarms' = list
    /\ initialLoad' = (initialLoad /\ Len(list) = 0)
    /\ setSched(S)

\* loadAlarms (lines 34-79)
LoadAlarms ==
  /\ initialLoad
  /\ db # {}
  /\ setAlarms(getUserAlarms(db))
  /\ UNCHANGED <<now, db, activeAlarm, alarmAudio, displayState, tapCount, playing,
                 nextAudio, plantHealth, plantLevel, inflight, feelTimers, session,
                 calls, ended, wakeUpEnabled, userOps, probe, lastApi, lastWrite,
                 permission, createThrows, lastTrigger, deferred, volume>>

\* AlarmItem.handleToggle, then AlarmDashboard.handleAlarmModification
HandleToggle ==
  \E a \in db :
    /\ userOps < MaxUserOps
    /\ \E i \in 1 .. Len(alarms) : alarms[i].id = a.id
    /\ db' = (db \ {a}) \cup {[a EXCEPT !.isEnabled = ~a.isEnabled]}
    /\ setAlarms(getUserAlarms(db'))
    /\ userOps' = userOps + 1
    /\ UNCHANGED <<now, activeAlarm, alarmAudio, displayState, tapCount, playing,
                   nextAudio, plantHealth, plantLevel, inflight, feelTimers, session,
                   calls, ended, wakeUpEnabled, probe, lastApi, lastWrite,
                 permission, createThrows, lastTrigger, deferred, volume>>

\* AlarmItem.handleDelete, then AlarmDashboard.handleAlarmModification
HandleDelete ==
  \E a \in db :
    /\ userOps < MaxUserOps
    /\ \E i \in 1 .. Len(alarms) : alarms[i].id = a.id
    /\ db' = db \ {a}
    /\ setAlarms(getUserAlarms(db'))
    /\ userOps' = userOps + 1
    /\ UNCHANGED <<now, activeAlarm, alarmAudio, displayState, tapCount, playing,
                   nextAudio, plantHealth, plantLevel, inflight, feelTimers, session,
                   calls, ended, wakeUpEnabled, probe, lastApi, lastWrite,
                 permission, createThrows, lastTrigger, deferred, volume>>

\* AlarmList.handleSaveAlarm on an existing alarm (updateAlarm), then
\* AlarmDashboard.handleAlarmModification.  The form keeps the enabled flag.
HandleEditAlarm ==
  \E a \in db, time \in Times, days \in {{0}, WeekDays} :
    /\ userOps < MaxUserOps
    /\ \E i \in 1 .. Len(alarms) : alarms[i].id = a.id
    /\ <<time, days>> # <<a.time, a.days>>
    /\ db' = (db \ {a}) \cup {[a EXCEPT !.time = time, !.days = days]}
    /\ setAlarms(getUserAlarms(db'))
    /\ userOps' = userOps + 1
    /\ UNCHANGED <<now, activeAlarm, alarmAudio, displayState, tapCount, playing,
                   nextAudio, plantHealth, plantLevel, inflight, feelTimers, session,
                   calls, ended, wakeUpEnabled, probe, lastApi, lastWrite,
                 permission, createThrows, lastTrigger, deferred, volume>>

\* AlarmDashboard.handleSaveAlarm (lines 274-315): the dashboard's form never has an
\* alarm to edit, so it creates one; the list is reloaded, its effects run, and the
\* saved alarm is scheduled when enabled.
HandleSaveAlarm ==
  \E id \in Ids, time \in {MinPerDay - 1}, isEnabled \in BOOLEAN :
    /\ userOps < MaxUserOps
    /\ ~initialLoad \/ db = {}
    /\ \A a \in db : a.id # id
    /\ LET savedAlarm == Alarm(id, time, WeekDays, isEnabled, 1, "repeat")
           list == getUserAlarms(db \cup {savedAlarm})
           S == afterSetAlarms(Sched, list, Len(alarms), initialLoad, now)
       IN  /\ db' = db \cup {savedAlarm}
           /\ alarms' = list
           /\ initialLoad' = FALSE
           /\ setSched(IF savedAlarm.isEnabled THEN scheduleAlarm(S, savedAlarm, now) ELSE S)
    /\ userOps' = userOps + 1
    /\ UNCHANGED <<now, activeAlarm, alarmAudio, displayState, tapCount, playing,
                   nextAudio, plantHealth, plantLevel, inflight, feelTimers, session,
                   calls, ended, wakeUpEnabled, probe, lastApi, lastWrite,
                 permission, createThrows, lastTrigger, deferred, volume>>

(***************************************************************************)
(* The scheduler's exported functions called directly.                      *)
(***************************************************************************)
ApiAlarms ==
  {Alarm(id, 1, WeekDays, TRUE, 1, "repeat") : id \in Ids} \cup
  {Alarm(id, MinPerDay - 1, {0}, TRUE, 1, "repeat") : id \in Ids} \cup
  {Alarm(1, 1, WeekDays, FALSE, 1, "repeat"),
   Alarm(1, 1, {}, TRUE, 1, "repeat"),
   Alarm(NoId, 1, WeekDays, TRUE, 1, "repeat")}

ApiLists ==
  {getUserAlarms({Alarm(id, 1, WeekDays, TRUE, 1, "repeat") : id \in I}) : I \in SUBSET Ids}
  \cup {<<Alarm(1, 1, {}, TRUE, 1, "repeat"), Alarm(2, 1, WeekDays, TRUE, 1, "repeat")>>,
        <<Alarm(1, 1, WeekDays, FALSE, 1, "repeat"), Alarm(2, MinPerDay - 1, {0}, TRUE, 1, "repeat")>>}

\* The registry already holds an occurrence for the id, armed from a definition with
\* the same id, time, days and enabled flag, at the instant the resolver gives now.
alreadyArmed(S, alarm, t) ==
  \E i \in 1 .. Len(S.activeAlarms) :
    /\ S.activeAlarms[i].id = alarm.id
    /\ S.activeAlarms[i].alarm.time = alarm.time
    /\ S.activeAlarms[i].alarm.days = alarm.days
    /\ S.activeAlarms[i].alarm.isEnabled = alarm.isEnabled
    /\ S.activeAlarms[i].scheduledTime = getNextAlarmTime(alarm, t)

scheduleCall(alarm) ==
  /\ userOps < MaxUserOps
  /\ setSched(scheduleAlarm(Sched, alarm, now))
  /\ lastApi' = [op |-> "schedule", alarm |-> alarm,
                 armed |-> alreadyArmed(Sched, alarm, now),
                 changed |-> scheduleAlarm(Sched, alarm, now) # Sched]
  /\ userOps' = userOps + 1
  /\ UNCHANGED <<now, db, alarms, initialLoad, activeAlarm, alarmAudio, displayState,
                 tapCount, playing, nextAudio, plantHealth, plantLevel, inflight,
                 feelTimers, session, calls, ended, wakeUpEnabled, probe, lastWrite,
                 permission, createThrows, lastTrigger, deferred, volume>>

ApiSchedule == \E alarm \in ApiAlarms : scheduleCall(alarm)

\* Versions of one alarm that agree on _id, time, days and isEnabled and differ in
\* the label, the volume setting or the snooze settings; and an edit of its time.
VariantAlarms ==
  {[Alarm(1, 1, WeekDays, TRUE, st, sb) EXCEPT !.gradual = g, !.snoozed = lbl] :
     st \in {1, 2}, sb \in {"repeat", "repeat_shorten"}, g \in BOOLEAN, lbl \in {0, 1}}
  \cup {Alarm(1, 0, WeekDays, TRUE, 1, "repeat")}

ApiScheduleVariant == \E alarm \in VariantAlarms : scheduleCall(alarm)

\* Alarms with and without raiseVolumeGradually.
VolumeAlarms ==
  {[Alarm(1, 1, WeekDays, TRUE, 1, "repeat") EXCEPT !.gradual = g] : g \in BOOLEAN}

ApiScheduleVolume == \E alarm \in VolumeAlarms : scheduleCall(alarm)

\* Alarms handed to triggerAlarm by a caller other than the timer: marked
\* _manuallyTriggered, or without _id.
ManualAlarms ==
  {[Alarm(id, 1, WeekDays, TRUE, 1, "repeat") EXCEPT !.manual = TRUE] : id \in Ids} \cup
  {Alarm(NoId, 1, WeekDays, TRUE, 1, "repeat"),
   [Alarm(NoId, 0, {0}, TRUE, 1, "repeat") EXCEPT !.manual = TRUE]}

\* The exported triggerAlarm called directly (a test trigger): no timer has expired.
triggerCall(alarm) ==
  /\ userOps < MaxUserOps
  /\ triggerSteps(alarm, Sched, {}, createThrows)
  /\ userOps' = userOps + 1

ApiTrigger == \E alarm \in ManualAlarms : triggerCall(alarm)

cancelCall(id) ==
  /\ userOps < MaxUserOps
  /\ setSched(cancelAlarm(Sched, id))
  /\ lastApi' = [NoCall EXCEPT !.op = "cancel"]
  /\ userOps' = userOps + 1
  /\ UNCHANGED <<now, db, alarms, initialLoad, activeAlarm, alarmAudio, displayState,
                 tapCount, playing, nextAudio, plantHealth, plantLevel, inflight,
                 feelTimers, session, calls, ended, wakeUpEnabled, probe, lastWrite,
                 permission, createThrows, lastTrigger, deferred, volume>>

ApiCancel == \E id \in Ids : cancelCall(id)

ApiCancelAll ==
  /\ userOps < MaxUserOps
  /\ setSched(cancelAllAlarms(Sched))
  /\ lastApi' = [NoCall EXCEPT !.op = "cancelAll"]
  /\ userOps' = userOps + 1
  /\ UNCHANGED <<now, db, alarms, initialLoad, activeAlarm, alarmAudio, displayState,
                 tapCount, playing, nextAudio, plantHealth, plantLevel, inflight,
                 feelTimers, session, calls, ended, wakeUpEnabled, probe, lastWrite,
                 permission, createThrows, lastTrigger, deferred, volume>>

scheduleAllCall(list) ==
  /\ userOps < MaxUserOps
  /\ setSched(scheduleAllAlarms(Sched, list, now))
  /\ lastApi' = [NoCall EXCEPT !.op = "scheduleAll"]
  /\ userOps' = userOps + 1
  /\ UNCHANGED <<now, db, alarms, initialLoad, activeAlarm, alarmAudio, displayState,
                 tapCount, playing, nextAudio, plantHealth, plantLevel, inflight,
                 feelTimers, session, calls, ended, wakeUpEnabled, probe, lastWrite,
                 permission, createThrows, lastTrigger, deferred, volume>>

ApiScheduleAll == \E list \in ApiLists : scheduleAllCall(list)

(***************************************************************************)
(* The resolver applied to one definition at one instant.                   *)
(***************************************************************************)
ProbeAlarms ==
  {Alarm(1, time, days, TRUE, 1, "repeat") : time \in Times, days \in SUBSET WeekDays}

ProbeHorizon == 2 * DaysPerWeek * SecPerDay

Resolve ==
  /\ ~probe.done
  /\ probe' = [probe EXCEPT !.result = getNextAlarmTime(probe.alarm, probe.now),
                            !.done = TRUE]
  /\ UNCHANGED <<now, db, alarms, initialLoad, activeAlarms, timers, nextTimerId,
                 activeAlarm, alarmAudio, displayState, tapCount, playing, nextAudio,
                 plantHealth, plantLevel, inflight, feelTimers, session, calls, ended,
                 wakeUpEnabled, userOps, lastApi, lastWrite,
                 permission, createThrows, lastTrigger, timerLog, deferred, volume>>

(***************************************************************************)
(* alarmService.getNextAlarm, the dashboard's lookup of the next alarm.     *)
(***************************************************************************)
\* sort((a, b) => a.time.localeCompare(b.time))[0]: a document with the least time;
\* which one of several is the order findDocuments returned them in.
firstByTime(docs) == {a \in docs : \A b \in docs : a.time <= b.time}

\* Mutation: an alarm of the current minute still counts as coming today.
getNextAlarm_ge(docs, t) ==
  LET enabled == {a \in docs : a.isEnabled}
      today == getDay(t)
      currentTime == getMinuteOfDay(t)
      todayAlarms == {a \in enabled : today \in a.days /\ a.time >= currentTime}
      onDay(i) == {a \in enabled : ((today + i) % DaysPerWeek) \in a.days}
      later == {i \in 1 .. DaysPerWeek : onDay(i) # {}}
  IN  IF enabled = {} THEN {}
      ELSE IF todayAlarms # {} THEN firstByTime(todayAlarms)
      ELSE IF later # {} THEN firstByTime(onDay(Min(later)))
      ELSE {}

\* The documents getNextAlarm can return at instant t; none stands for null.
getNextAlarm(docs, t) ==
  LET enabled == {a \in docs : a.isEnabled}
      today == getDay(t)
      currentTime == getMinuteOfDay(t)
      todayAlarms == {a \in enabled : today \in a.days /\ a.time > currentTime}
      onDay(i) == {a \in enabled : ((today + i) % DaysPerWeek) \in a.days}
      later == {i \in 1 .. DaysPerWeek : onDay(i) # {}}
  IN  IF enabled = {} THEN {}
      ELSE IF todayAlarms # {} THEN firstByTime(todayAlarms)
      ELSE IF later # {} THEN firstByTime(onDay(Min(later)))
      ELSE {}

\* The call of getNextAlarm on the stored documents at the probe's instant.
GetNextAlarm ==
  /\ ~probe.done
  /\ LET found == getNextAlarm(db, probe.now)
     IN  IF found = {}
         THEN probe' = [probe EXCEPT !.done = TRUE]
         ELSE \E a \in found : probe' = [probe EXCEPT !.alarm = a, !.done = TRUE]
  /\ UNCHANGED <<now, db, alarms, initialLoad, activeAlarms, timers, nextTimerId,
                 activeAlarm, alarmAudio, displayState, tapCount, playing, nextAudio,
                 plantHealth, plantLevel, inflight, feelTimers, session, calls, ended,
                 wakeUpEnabled, userOps, lastApi, lastWrite,
                 permission, createThrows, lastTrigger, timerLog, deferred, volume>>

\* Stored documents for the lookup: per id none, a disabled one, or an enabled one
\* at any time on one of a few sets of weekdays.
LookupDays == {{}, {0}, {1}, {0, 3}}

LookupShapes == (Times \X LookupDays \X {TRUE}) \cup {<<0, WeekDays, FALSE>>}

LookupDbs ==
  UNION {{{Alarm(id, f[id][1], f[id][2], f[id][3], 1, "repeat") : id \in I} :
            f \in [I -> LookupShapes]} : I \in SUBSET Ids}

InitLookup ==
  /\ InitEngine
  /\ db \in LookupDbs
  /\ probe \in [alarm : {NoAlarm}, now : 0 .. (DaysPerWeek * SecPerDay - 1),
                result : {nullTime}, done : {FALSE}]

InitResolver ==
  /\ InitEngine
  /\ db = {}
  /\ probe \in [alarm : ProbeAlarms, now : 0 .. (ProbeHorizon - 1),
                result : {nullTime}, done : {FALSE}]

(***************************************************************************)
(* Specifications.                                                          *)
(*   Spec          the dashboard's alarm-list flows and the timers          *)
(*   SpecForms     the alarm forms and the toggle, and the timers           *)
(*   SpecSession   one alarm, its firings and the ringing display           *)
(*   SpecApi       the scheduler's functions in any order, expiry, snooze   *)
(*   SpecResolver  getNextAlarmTime on every definition and instant         *)
(*   SpecHealth    updatePlantHealth on every persisted score               *)
(*   SpecNotify    expiry under every notification permission               *)
(*   SpecShorten   snoozeAlarm's copy on every snooze time, snoozed again   *)
(*   SpecSweep     the scheduler's functions on registries already armed    *)
(*   SpecAudio     one alarm, its firings, the display and the play attempts *)
(*   SpecRing      two alarms firing while the display is open              *)
(*   SpecSpeech    firings with their announcements and play attempts       *)
(*   SpecManual    triggerAlarm called directly, between schedules          *)
(*   SpecSource    firings and the load events of their audio sources       *)
(*   SpecVolume    firings with the volume ramp, a snooze meanwhile         *)
(*   SpecGuard     one alarm scheduled again in edited versions             *)
(*   SpecLookup    getNextAlarm on every stored set and instant             *)
(*   SpecOnce      an alarm with snooze behaviour once, snoozed twice       *)
(***************************************************************************)
Next ==
  \/ LoadAlarms
  \/ HandleToggle
  \/ HandleDelete
  \/ Tick
  \/ TimerFire

Spec == Init /\ [][Next]_vars

NextForms ==
  \/ LoadAlarms
  \/ HandleToggle
  \/ HandleEditAlarm
  \/ HandleSaveAlarm
  \/ Tick
  \/ TimerFire

SpecForms == Init /\ [][NextForms]_vars

InitSession ==
  /\ InitEngine
  /\ db \in {{a} : a \in FirstAlarms}
  /\ probe = NoProbe

NextSession ==
  \/ LoadAlarms
  \/ Tick
  \/ TimerFire
  \/ HandleWakeUp
  \/ HandleSnooze
  \/ HandleIgnoreAlarm
  \/ EnableWakeUp
  \/ HandleSleepFeelingSelect
  \/ FeelTimerFire
  \/ HealthGet
  \/ HealthPut
  \/ HealthReject

SpecSession == InitSession /\ [][NextSession]_vars

InitApi ==
  /\ InitEngine
  /\ db = {}
  /\ probe = NoProbe

NextApi ==
  \/ ApiSchedule
  \/ ApiCancel
  \/ ApiCancelAll
  \/ ApiScheduleAll
  \/ Tick
  \/ TimerFire
  \/ HandleSnooze
  \/ HealthGet
  \/ HealthPut
  \/ HealthReject

SpecApi == InitApi /\ [][NextApi]_vars

SpecResolver == InitResolver /\ [][Resolve]_vars

\* The score deltas of dismissAlarm and snoozeAlarm.
Deltas == {WakeDelta, 0 - SnoozeDelta, 0 - IgnoreDelta}

\* Persisted users: any score 0..100 or none, with the tier createUser gives or the
\* tier of an earlier update.
InitHealth ==
  /\ InitCore
  /\ db = {}
  /\ probe = NoProbe
  /\ plantHealth \in (0 .. MaxHealth) \cup {NoHealth}
  /\ plantLevel \in {1} \cup {newLevelOf(h) : h \in {plantHealth} \ {NoHealth}}
  /\ permission = "granted"

\* updatePlantHealth(userId, healthChange) called on its own.
UpdatePlantHealth ==
  \E healthChange \in Deltas :
    /\ Len(inflight) < MaxPending
    /\ userOps < MaxUserOps
    /\ userOps' = userOps + 1
    /\ inflight' = Append(inflight, HealthCall("update", healthChange, NoAlarm, 0, now))
    /\ UNCHANGED <<now, db, alarms, initialLoad, activeAlarms, timers, nextTimerId,
                   activeAlarm, alarmAudio, displayState, tapCount, playing, nextAudio,
                   plantHealth, plantLevel, feelTimers, session, calls, ended,
                   wakeUpEnabled, probe, lastApi, lastWrite,
                 permission, createThrows, lastTrigger, timerLog, deferred, volume>>

NextHealth ==
  \/ UpdatePlantHealth
  \/ HealthGet
  \/ HealthPut
  \/ HealthReject

SpecHealth == InitHealth /\ [][NextHealth]_vars

\* The promise of Notification.requestPermission() settles with the user's answer.
PermissionDecided ==
  /\ permission = "default"
  /\ permission' \in {"granted", "denied"}
  /\ UNCHANGED <<now, db, alarms, initialLoad, activeAlarms, timers, nextTimerId,
                 activeAlarm, alarmAudio, displayState, tapCount, playing, nextAudio,
                 plantHealth, plantLevel, inflight, feelTimers, session, calls, ended,
                 wakeUpEnabled, userOps, probe, lastApi, lastWrite, createThrows, lastTrigger, timerLog, deferred, volume>>

InitNotify ==
  /\ InitCore
  /\ db = {}
  /\ probe = NoProbe
  /\ plantHealth = 70
  /\ plantLevel = 4
  /\ permission \in Permissions

NextNotify ==
  \/ ApiSchedule
  \/ PermissionDecided
  \/ Tick
  \/ TimerFire
  \/ PlayAttempt
  \/ SpeechSettles

SpecNotify == InitNotify /\ [][NextNotify]_vars

\* The stored definitions whose snooze is followed: every snooze time (0: not set)
\* and both behaviours.
ShortenAlarms ==
  {Alarm(1, 0, WeekDays, TRUE, snoozeTime, snoozeBehavior) :
     snoozeTime \in 0 .. MaxSnoozeTime, snoozeBehavior \in {"repeat", "repeat_shorten"}}

\* The stored alarm has fired and is on display.
InitShorten ==
  /\ now = 0
  /\ db \in {{a} : a \in ShortenAlarms}
  /\ alarms = <<>>
  /\ initialLoad = TRUE
  /\ activeAlarms = <<>>
  /\ timers = {}
  /\ nextTimerId = 1
  /\ activeAlarm \in db
  /\ alarmAudio = 1
  /\ displayState = "initial"
  /\ tapCount = TapStart
  /\ wakeUpEnabled = FALSE
  /\ playing = {1}
  /\ nextAudio = 2
  /\ inflight = <<>>
  /\ feelTimers = <<>>
  /\ session = 1
  /\ calls = << <<>> >>
  /\ ended = <<"">>
  /\ userOps = 0
  /\ lastApi = NoCall
  /\ lastWrite = NoWrite
  /\ lastTrigger = NoTrigger
  /\ timerLog = NoLog
  /\ deferred = {}
  /\ volume = <<One>>
  /\ createThrows \in BOOLEAN
  /\ plantHealth = 70
  /\ plantLevel = 4
  /\ permission = "granted"
  /\ probe = NoProbe

\* snoozeAlarm lines 332-351 on the alarm on display; the copy it builds is the
\* alarm the next display receives.
SnoozeAgain ==
  /\ activeAlarm # NoAlarm
  /\ activeAlarm.snoozed < MaxChain
  /\ activeAlarm' = snoozeCopyOf(activeAlarm, now)
  /\ UNCHANGED <<now, db, alarms, initialLoad, activeAlarms, timers, nextTimerId,
                 alarmAudio, displayState, tapCount, playing, nextAudio,
                 plantHealth, plantLevel, inflight, feelTimers, session, calls, ended,
                 wakeUpEnabled, userOps, probe, lastApi, lastWrite,
                 permission, createThrows, lastTrigger, timerLog, deferred, volume>>

NextShorten ==
  \/ SnoozeAgain
  \/ Tick

SpecShorten == InitShorten /\ [][NextShorten]_vars

\* Definitions armed before the calls under study: stored alarms and the copy a
\* snooze at instant 0 makes of one.
ArmedBefore ==
  {Alarm(id, 1, WeekDays, TRUE, 1, "repeat") : id \in Ids} \cup
  {Alarm(id, MinPerDay - 1, {0}, TRUE, 1, "repeat") : id \in Ids} \cup
  {snoozeCopyOf(Alarm(id, 0, WeekDays, TRUE, 1, "repeat"), 0) : id \in Ids}

\* The registry after scheduleAlarm has armed up to two of them at instant 0, which
\* is counted as one operation.
InitSweep ==
  /\ now = 0
  /\ db = {}
  /\ alarms = <<>>
  /\ initialLoad = TRUE
  /\ activeAlarm = NoAlarm
  /\ alarmAudio = 0
  /\ displayState = "initial"
  /\ tapCount = TapStart
  /\ wakeUpEnabled = FALSE
  /\ playing = {}
  /\ nextAudio = 1
  /\ inflight = <<>>
  /\ feelTimers = <<>>
  /\ session = 0
  /\ calls = <<>>
  /\ ended = <<>>
  /\ userOps = 1
  /\ lastApi = NoCall
  /\ lastWrite = NoWrite
  /\ lastTrigger = NoTrigger
  /\ timerLog = NoLog
  /\ deferred = {}
  /\ volume = <<>>
  /\ createThrows \in BOOLEAN
  /\ probe = NoProbe
  /\ plantHealth = 70
  /\ plantLevel = 4
  /\ permission = "granted"
  /\ \E a \in ArmedBefore, b \in ArmedBefore :
       LET S == scheduleAlarm(scheduleAlarm([activeAlarms |-> <<>>, timers |-> {},
                                            nextTimerId |-> 1], a, 0), b, 0)
       IN  /\ activeAlarms = S.activeAlarms
           /\ timers = S.timers
           /\ nextTimerId = S.nextTimerId

NextSweep ==
  \/ ApiSchedule
  \/ ApiCancel
  \/ ApiCancelAll
  \/ ApiScheduleAll
  \/ Tick
  \/ TimerFire

SpecSweep == InitSweep /\ [][NextSweep]_vars

NextAudio ==
  \/ LoadAlarms
  \/ Tick
  \/ TimerFire
  \/ PlayAttempt
  \/ HandleWakeUp
  \/ HandleSnooze
  \/ HandleIgnoreAlarm
  \/ HandleSleepFeelingSelect
  \/ FeelTimerFire
  \/ HealthGet
  \/ HealthPut
  \/ HealthReject

SpecAudio == InitSession /\ [][NextAudio]_vars

NextRing ==
  \/ LoadAlarms
  \/ Tick
  \/ TimerFire
  \/ PlayAttempt
  \/ HandleIgnoreAlarm

SpecRing == Init /\ [][NextRing]_vars

\* Test triggers between schedules and expiries.
NextManual ==
  \/ ApiSchedule
  \/ ApiTrigger
  \/ Tick
  \/ TimerFire

SpecManual == InitApi /\ [][NextManual]_vars

SpecLookup == InitLookup /\ [][GetNextAlarm]_vars

\* One stored alarm whose snooze behaviour is "once" or "repeat", with a snooze time
\* or without (0: the default applies).
OnceAlarms ==
  {Alarm(1, 1, WeekDays, TRUE, snoozeTime, snoozeBehavior) :
     snoozeTime \in {0, 1, 2}, snoozeBehavior \in {"once", "repeat"}}

InitOnce ==
  /\ InitEngine
  /\ db \in {{a} : a \in OnceAlarms}
  /\ probe = NoProbe

\* The alarm fires, is snoozed, its copy fires and is snoozed again.
NextOnce ==
  \/ LoadAlarms
  \/ Tick
  \/ TimerFire
  \/ HandleSnooze
  \/ HealthGet
  \/ HealthPut

SpecOnce == InitOnce /\ [][NextOnce]_vars

\* One alarm scheduled again and again in edited versions, and its firings.
NextGuard ==
  \/ ApiScheduleVariant
  \/ Tick
  \/ TimerFire

SpecGuard == InitApi /\ [][NextGuard]_vars

\* Firings with the volume ramp, and a session snoozed while the ramp runs.
NextVolume ==
  \/ ApiScheduleVolume
  \/ Tick
  \/ TimerFire
  \/ RampTick
  \/ HandleSnooze
  \/ HealthGet
  \/ HealthPut
  \/ HealthReject

SpecVolume == InitApi /\ [][NextVolume]_vars

\* Firings and the loading of their audio sources, after the dashboard's load.
NextSource ==
  \/ LoadAlarms
  \/ Tick
  \/ TimerFire
  \/ SourceSettles

SpecSource == Init /\ [][NextSource]_vars

\* Firings with their announcement and play attempts, after the dashboard's load.
NextSpeech ==
  \/ LoadAlarms
  \/ Tick
  \/ TimerFire
  \/ PlayAttempt
  \/ SpeechSettles

SpecSpeech == Init /\ [][NextSpeech]_vars

(***************************************************************************)
(* Properties of the occurrence resolver (SpecResolver).                    *)
(***************************************************************************)
\* An instant at which the definition is due: active weekday, configured time of day.
Qualifies(alarm, t) ==
  /\ getDay(t) \in alarm.days
  /\ getMinuteOfDay(t) = alarm.time
  /\ getSeconds(t) = 0

\* C5: for a definition with at least one active weekday the resolver returns an
\* instant strictly later than now, on an active weekday, at the configured time of
\* day; it returns none exactly when no weekday is active.
C5_ResolverStrictlyFuture ==
  probe.done =>
    IF probe.alarm.days = {}
    THEN probe.result = nullTime
    ELSE /\ probe.result # nullTime
         /\ probe.result > probe.now
         /\ Qualifies(probe.alarm, probe.result)

\* C5 witness: now is exactly the configured time on the only active weekday, and the
\* resolver has answered with a later instant.
C5_Witness ==
  /\ probe.done
  /\ probe.alarm.days = {getDay(probe.now)}
  /\ probe.now = setHours(getDate(probe.now), probe.alarm.time)
  /\ probe.result > probe.now

\* C6: the resolver returns the earliest qualifying instant after now, which lies at
\* most 7 days ahead; on the active day at or past the target time this is the
\* occurrence one week later.
C6_ResolverEarliest ==
  (probe.done /\ probe.alarm.days # {}) =>
    /\ probe.result =
         Min({t \in (probe.now + 1) .. (probe.now + DaysPerWeek * SecPerDay) :
                Qualifies(probe.alarm, t)})
    /\ (getDay(probe.now) \in probe.alarm.days
        /\ setHours(getDate(probe.now), probe.alarm.time) > probe.now)
         => probe.result = setHours(getDate(probe.now), probe.alarm.time)
    /\ (probe.alarm.days = {getDay(probe.now)}
        /\ setHours(getDate(probe.now), probe.alarm.time) <= probe.now)
         => probe.result = setHours(getDate(probe.now) + DaysPerWeek, probe.alarm.time)

\* C6 witness: days = [Mon], now = Monday one unit past the alarm time, and the answer
\* is the Monday 7 days later.
C6_Witness ==
  /\ probe.done
  /\ probe.alarm.days = {1}
  /\ getDay(probe.now) = 1
  /\ probe.now = setHours(getDate(probe.now), probe.alarm.time) + 1
  /\ probe.result = setHours(getDate(probe.now) + DaysPerWeek, probe.alarm.time)

(***************************************************************************)
(* Properties of the dashboard flows (Spec).                                *)
(***************************************************************************)
\* C1: once the user has disabled or deleted an alarm through the list (the flow runs
\* to completion within its step), the registry holds no occurrence and no pending
\* timer for that alarm id, whatever the alarm list, so the alarm cannot fire.
C1_NoOccurrenceAfterDisableOrDelete ==
  \A id \in Ids :
    (~ \E a \in db : a.id = id /\ a.isEnabled) =>
      /\ \A i \in 1 .. Len(activeAlarms) : activeAlarms[i].id # id
      /\ \A tm \in timers : tm.alarm.id # id

(***************************************************************************)
(* Properties of the ringing session (SpecSession).                         *)
(***************************************************************************)
\* The persisted definition of the one alarm of SpecSession.
Original == CHOOSE a \in db : TRUE

\* The session has ended by confirm, snooze or ignore and its service calls are over.
Resolved(sid) ==
  /\ ended[sid] \in {"confirm", "snooze", "ignore"}
  /\ \A k \in 1 .. Len(inflight) : inflight[k].sid # sid

\* C2: after a firing of the recurring alarm, however the session was ended (confirm,
\* snooze, ignore), the registry holds an occurrence for the alarm's id whose fire
\* instant is a next occurrence of the alarm's own time of day and weekdays.
C2_RecurrenceIndependentOfEnding ==
  \A sid \in 1 .. session :
    Resolved(sid) =>
      \E i \in 1 .. Len(activeAlarms) :
        /\ activeAlarms[i].id = Original.id
        /\ activeAlarms[i].scheduledTime \in {getNextAlarmTime(Original, t) : t \in 0 .. now}

\* C3: the score service is called at most once for a session, never before the
\* session's terminal transition, and the confirm path asks for +10 once in total.
C3_ScoreMutatedOncePerSession ==
  \A sid \in 1 .. session :
    /\ Len(calls[sid]) <= 1
    /\ ended[sid] = "" => calls[sid] = <<>>
    /\ ended[sid] = "confirm" => calls[sid] = <<WakeDelta>>

\* C9: when the score service call of a session rejects, a snooze has its follow-up
\* occurrence armed all the same, and a confirm or ignore has stopped the audio and
\* closed the session.
C9_TransitionSurvivesReject ==
  [][\A i \in 1 .. Len(inflight) :
       rejectCall(i) =>
         /\ inflight[i].kind = "snooze" =>
              alreadyArmed(Sched', inflight[i].snoozeAlarm, now)
         /\ (inflight[i].kind = "dismiss" /\ ended[inflight[i].sid] \in {"confirm", "ignore"}) =>
              /\ inflight[i].sid \notin playing'
              /\ activeAlarm' # NoAlarm => session' # inflight[i].sid]_vars

\* The minute in which now + m minutes lies, for a snooze called at instant t.
snoozeTarget(call) ==
  LET target == call.calledAt + snoozeMinutesOf(Original) * SecPerMin
  IN  target - getSeconds(target)

\* C10: a snooze of m minutes called at instant t arms an occurrence that fires at
\* t + m minutes (taken to the minute, and for a service call that returns before that
\* minute), also when that instant lies on the next calendar day, and the score goes
\* down by 5.
C10_SnoozeFiresAfterMinutes ==
  [][\A i \in 1 .. Len(inflight) :
       (putCall(i) /\ inflight[i].kind = "snooze" /\ now < snoozeTarget(inflight[i])) =>
         /\ \E k \in 1 .. Len(activeAlarms') :
              /\ activeAlarms'[k].id = inflight[i].snoozeAlarm.id
              /\ activeAlarms'[k].scheduledTime = snoozeTarget(inflight[i])
         /\ plantHealth' = plantHealth - SnoozeDelta]_vars

(***************************************************************************)
(* Properties of the registry (SpecApi).                                    *)
(***************************************************************************)
\* C4: in every state the registry holds at most one occurrence per alarm id, and at
\* most one pending timer per alarm id.
C4_OneOccurrencePerId ==
  \A id \in Ids :
    /\ Cardinality({i \in 1 .. Len(activeAlarms) : activeAlarms[i].id = id}) <= 1
    /\ Cardinality({tm \in timers : tm.alarm.id = id}) <= 1

\* C4 witness: an alarm expired, was snoozed, and the snoozed copy has replaced the
\* occurrence that the expiry had re-armed for the same id.
C4_Witness ==
  /\ session >= 1
  /\ \E i \in 1 .. Len(activeAlarms) :
       /\ activeAlarms[i].alarm.snoozed > 0
       /\ activeAlarms[i].timerId > 2
  /\ Len(activeAlarms) = 1

\* C7: a schedule call for a definition that is already armed at the instant the
\* resolver gives leaves the registry, the timer table and the handle as they were.
C7_ScheduleIdempotent ==
  (lastApi.op = "schedule" /\ lastApi.armed) => ~lastApi.changed

\* C7 witness: two schedule calls and nothing else, the second for the definition the
\* first armed; one timer, with the first handle.
C7_Witness ==
  /\ lastApi.op = "schedule"
  /\ lastApi.armed
  /\ userOps = 2
  /\ session = 0
  /\ Len(activeAlarms) = 1
  /\ activeAlarms[1].timerId = 1
  /\ timers = {[timerId |-> 1, alarm |-> lastApi.alarm, due |-> activeAlarms[1].scheduledTime]}

\* C8: the step in which an armed occurrence expires and the session is presented has
\* already removed the consumed occurrence and armed the next one, under a new handle.
C8_RearmedWithinExpiry ==
  [][session' = session + 1 =>
       \E i \in 1 .. Len(activeAlarms') :
         /\ activeAlarms'[i].id = activeAlarm'.id
         /\ activeAlarms'[i].timerId >= nextTimerId
         /\ activeAlarms'[i].scheduledTime > now
         /\ \E tm \in timers' : tm.timerId = activeAlarms'[i].timerId]_vars

\* C8 witness: a session is ringing, no terminal transition has been taken, and the
\* next occurrence of its alarm is armed.
C8_Witness ==
  /\ activeAlarm # NoAlarm
  /\ ended[session] = ""
  /\ calls[session] = <<>>
  /\ \E i \in 1 .. Len(activeAlarms) :
       /\ activeAlarms[i].id = activeAlarm.id
       /\ activeAlarms[i].scheduledTime = getNextAlarmTime(activeAlarm, now)

(***************************************************************************)
(* Properties of the Ignore taps (SpecSession).                             *)
(***************************************************************************)
\* The Ignore actions taken so far on the session on display: the tap that opened the
\* tap screen and the taps counted down there.
ignoresDone == IF displayState = "snooze" THEN 1 + (TapStart - tapCount) ELSE 0

\* C11: on a freshly fired session the first 49 Ignore actions leave the score and the
\* session alone, and the 50th asks for -10 and closes the session.
C11_IgnoreOnFiftieth ==
  [][(HandleIgnoreAlarm /\ displayState \in {"initial", "snooze"}) =>
       /\ ignoresDone + 1 < TapStart =>
            /\ activeAlarm' = activeAlarm
            /\ calls' = calls
            /\ inflight' = inflight
       /\ ignoresDone + 1 = TapStart =>
            /\ activeAlarm' = NoAlarm
            /\ calls' = [calls EXCEPT ![session] = Append(@, 0 - IgnoreDelta)]]_vars

\* C12: an action that reaches a session after its terminal transition (here the
\* dismissal queued by a repeated sleep-feeling selection) starts no score call and
\* leaves the registry as it was.
C12_TerminalSessionNoOp ==
  [][(FeelTimerFire /\ ended[Head(feelTimers).sid] \in {"confirm", "snooze", "ignore"}) =>
       /\ calls' = calls
       /\ inflight' = inflight
       /\ UNCHANGED <<activeAlarms, timers, nextTimerId>>]_vars

(***************************************************************************)
(* Properties of the score update (SpecHealth).                             *)
(***************************************************************************)
\* C13: an update that read the persisted score s in 0..100 and was asked for delta d
\* stores max(0, min(100, s + d)).
C13_UpdateStoresClampedSum ==
  (lastWrite # NoWrite /\ lastWrite.read \in 0 .. MaxHealth) =>
    lastWrite.stored = Max2(0, Min2(MaxHealth, lastWrite.read + lastWrite.healthChange))

\* C14: from any starting score in 0..100, or none, the persisted score is an integer
\* in 0..100 in every state once an update has been stored, and is never outside
\* 0..100 before.
C14_ScoreWithinRange ==
  /\ plantHealth \in (0 .. MaxHealth) \cup {NoHealth}
  /\ lastWrite # NoWrite => plantHealth \in 0 .. MaxHealth

\* C14 witness: an update that read 5 and was asked for -10 has stored 0.
C14_Witness ==
  /\ lastWrite.read = 5
  /\ lastWrite.healthChange = 0 - IgnoreDelta
  /\ lastWrite.stored = 0
  /\ plantHealth = 0
  /\ inflight = <<>>

\* C15: after every stored update the persisted tier is ceil(score / 20) and lies in
\* 1..5, for every score 0..100.
C15_TierOfScore ==
  lastWrite # NoWrite =>
    /\ plantLevel * LevelStep >= plantHealth
    /\ (plantLevel - 1) * LevelStep < plantHealth
    /\ plantLevel \in 1 .. 5

(***************************************************************************)
(* Properties of the alarm forms (SpecForms).                               *)
(***************************************************************************)
\* C16: when a flow has changed the stored definition of an existing alarm (new time
\* or weekdays, or enabled again) and the definition is enabled, the registry holds an
\* occurrence for its id at the instant the resolver gives for the new definition.
C16_EditRederivesOccurrence ==
  [][\A a \in db' \ db :
       ((\E b \in db : b.id = a.id) /\ a.isEnabled /\ a.days # {}) =>
         \E i \in 1 .. Len(activeAlarms') :
           /\ activeAlarms'[i].id = a.id
           /\ activeAlarms'[i].scheduledTime = getNextAlarmTime(a, now)]_vars

(***************************************************************************)
(* Properties of the notification step of an expiry (SpecNotify).           *)
(***************************************************************************)
\* C17: whatever the notification permission is, and also when creating the
\* notification fails, an expiry has invoked the display callback and armed the next
\* occurrence; under a denied permission the notification is only skipped.
C17_TriggerSurvivesNotification ==
  lastTrigger # NoTrigger =>
    /\ lastTrigger.callback
    /\ lastTrigger.rearmed
    /\ lastTrigger.permission = "denied" => lastTrigger.notification = "skipped"
(***************************************************************************)
(* Properties of the snooze durations (SpecShorten).                        *)
(***************************************************************************)
\* The durations the spec lists for an initial snooze time of 10.
ShortenFromTen == <<10, 8, 6, 4, 3, 2, 1, 1>>

\* The k-th duration of that list, which goes on with 1.
durationFromTen(k) == IF k <= Len(ShortenFromTen) THEN ShortenFromTen[k] ELSE 1

\* C18: with behaviour repeat_shorten and a snooze time that is set, the duration of
\* the next snooze is max(1, floor(0.8 * previous)), not above the previous one and
\* not below 1; from an initial snooze time of 10 the durations are 10, 8, 6, 4, 3,
\* 2, 1, 1, ...
C18_ShortenedDurations ==
  [][(/\ activeAlarm'.id = activeAlarm.id
      /\ activeAlarm # NoAlarm
      /\ activeAlarm'.snoozed = activeAlarm.snoozed + 1
      /\ activeAlarm.snoozeBehavior = "repeat_shorten"
      /\ activeAlarm.snoozeTime # 0) =>
       LET previous == snoozeMinutesOf(activeAlarm)
           next == snoozeMinutesOf(activeAlarm')
       IN  /\ 10 * next <= 8 * previous \/ next = 1
           /\ 10 * (next + 1) > 8 * previous
           /\ next <= previous
           /\ next >= 1
           /\ (\A a \in db : a.snoozeTime = 10) =>
                /\ previous = durationFromTen(activeAlarm.snoozed + 1)
                /\ next = durationFromTen(activeAlarm.snoozed + 2)]_vars

\* C18 witness: the alarm stored with snooze time 10 has been snoozed seven times and
\* the next snooze lasts one minute.
C18_Witness ==
  /\ \A a \in db : a.snoozeTime = 10 /\ a.snoozeBehavior = "repeat_shorten"
  /\ activeAlarm # NoAlarm
  /\ activeAlarm.snoozed = 7
  /\ snoozeMinutesOf(activeAlarm) = 1

(***************************************************************************)
(* Properties of the snoozed copy (SpecSession).                            *)
(***************************************************************************)
\* C19: the copy armed by a snooze fires once; the step in which it fires leaves no
\* occurrence in the registry that carries the copy's shifted time of day.
C19_SnoozeCopyOneShot ==
  [][(session' = session + 1 /\ activeAlarm'.snoozed > 0) =>
       \A i \in 1 .. Len(activeAlarms') :
         ~(/\ activeAlarms'[i].alarm.snoozed > 0
           /\ activeAlarms'[i].alarm.time = activeAlarm'.time)]_vars

(***************************************************************************)
(* Properties of cancelAlarm (SpecApi).                                     *)
(***************************************************************************)
\* The occurrences a registry holds for ids other than id, in order.
othersOf(list, id) == SelectSeq(list, LAMBDA occ : occ.id # id)

\* C20: cancelAlarm(id) leaves no occurrence for id; the timer of the removed
\* occurrence is no longer pending and its handle is never issued again; without an
\* occurrence for id nothing changes; the occurrences of the other ids and their
\* timers are as before.
C20_CancelFrame ==
  [][\A id \in Ids : cancelCall(id) =>
       LET index == findIndex(activeAlarms, id) IN
       /\ \A i \in 1 .. Len(activeAlarms') : activeAlarms'[i].id # id
       /\ index # 0 =>
            /\ \A tm \in timers' : tm.timerId # activeAlarms[index].timerId
            /\ activeAlarms[index].timerId < nextTimerId'
       /\ index = 0 => UNCHANGED <<activeAlarms, timers, nextTimerId>>
       /\ othersOf(activeAlarms', id) = othersOf(activeAlarms, id)
       /\ \A tm \in timers :
            (index = 0 \/ tm.timerId # activeAlarms[index].timerId) => tm \in timers'
       /\ timers' \subseteq timers]_vars

\* C20 witness: two ids were armed by one call, one of them has been cancelled, and
\* the other keeps its occurrence and its timer.
C20_Witness ==
  /\ lastApi.op = "cancel"
  /\ userOps = 2
  /\ nextTimerId = 3
  /\ Len(activeAlarms) = 1
  /\ timers = {[timerId |-> activeAlarms[1].timerId, alarm |-> activeAlarms[1].alarm,
                due |-> activeAlarms[1].scheduledTime]}
(***************************************************************************)
(* Properties of the sweep and of the guards of scheduleAlarm (SpecSweep).  *)
(***************************************************************************)
\* The listed alarms scheduleAllAlarms has to arm.
toArm(list) ==
  SelectSeq(list, LAMBDA alarm : alarm.isEnabled /\ alarm.id # NoId /\ alarm.days # {})

\* C21: after scheduleAllAlarms(list), for a list with distinct ids, the registry
\* holds one occurrence for each listed alarm that is enabled, has an id and an
\* active weekday, at the resolver's instant, and nothing else; the pending timers
\* are those of these occurrences, all armed by the call.
C21_SweepArmsExactlyTheList ==
  [][\A list \in ApiLists : scheduleAllCall(list) =>
       /\ Len(activeAlarms') = Len(toArm(list))
       /\ \A k \in 1 .. Len(toArm(list)) :
            /\ activeAlarms'[k].id = toArm(list)[k].id
            /\ activeAlarms'[k].alarm = toArm(list)[k]
            /\ activeAlarms'[k].scheduledTime = getNextAlarmTime(toArm(list)[k], now)
            /\ activeAlarms'[k].timerId >= nextTimerId
       /\ timers' = {[timerId |-> activeAlarms'[k].timerId, alarm |-> activeAlarms'[k].alarm,
                      due |-> activeAlarms'[k].scheduledTime] : k \in 1 .. Len(activeAlarms')}]_vars

\* C21 witness: two occurrences were armed before the call; the sweep of a list
\* with id 1 alone has left one occurrence, of the listed alarm, under a new handle.
C21_Witness ==
  /\ lastApi.op = "scheduleAll"
  /\ userOps = 2
  /\ nextTimerId = 4
  /\ Len(activeAlarms) = 1
  /\ activeAlarms[1].id = 1
  /\ activeAlarms[1].alarm.snoozed = 0
  /\ activeAlarms[1].timerId = 3
  /\ Cardinality(timers) = 1

(***************************************************************************)
(* Properties of the dashboard's per-alarm flows (SpecForms).               *)
(***************************************************************************)
\* C22: a create, edit, toggle or delete of one alarm after the initial load leaves
\* the armed occurrence of every other alarm as it was: same handle, same instant,
\* same definition, timer still pending.
C22_OtherOccurrencesUntouched ==
  [][(db' # db /\ ~initialLoad) =>
       \A i \in 1 .. Len(activeAlarms) :
         (\E a \in db \cap db' : a.id = activeAlarms[i].id) =>
           /\ \E j \in 1 .. Len(activeAlarms') : activeAlarms'[j] = activeAlarms[i]
           /\ \A tm \in timers : tm.timerId = activeAlarms[i].timerId => tm \in timers']_vars

\* C23: scheduleAlarm on an alarm that is disabled, has no id or has no active weekday
\* leaves the registry, the pending timers and the handle counter as they were; in
\* scheduleAllAlarms such an alarm does not keep the other listed alarms from being
\* armed.
C23_UnschedulableIsNoOp ==
  [][/\ \A alarm \in ApiAlarms :
          (scheduleCall(alarm) /\ (~alarm.isEnabled \/ alarm.id = NoId \/ alarm.days = {})) =>
            UNCHANGED <<activeAlarms, timers, nextTimerId>>
     /\ \A list \in ApiLists :
          scheduleAllCall(list) =>
            \A k \in 1 .. Len(toArm(list)) :
              \E i \in 1 .. Len(activeAlarms') :
                /\ activeAlarms'[i].alarm = toArm(list)[k]
                /\ \E tm \in timers' : tm.timerId = activeAlarms'[i].timerId]_vars

\* C23 witness: scheduleAlarm was called with a disabled definition of id 1 while an
\* occurrence of id 1 was armed; the occurrence and its timer are still there.
C23_Witness ==
  /\ lastApi.op = "schedule"
  /\ ~lastApi.alarm.isEnabled
  /\ ~lastApi.changed
  /\ \E i \in 1 .. Len(activeAlarms) :
       /\ activeAlarms[i].id = lastApi.alarm.id
       /\ activeAlarms[i].alarm.isEnabled
       /\ \E tm \in timers : tm.timerId = activeAlarms[i].timerId
(***************************************************************************)
(* Properties of the timers' expiries (SpecApi).                            *)
(***************************************************************************)
\* C24: every timer handle issued so far is in exactly one of three conditions: its
\* timer is pending and has not run triggerAlarm; its occurrence was cancelled or
\* superseded and it has not run and never will; or it expired and ran triggerAlarm
\* exactly once.
C24_OncePerOccurrence ==
  \A h \in 1 .. (nextTimerId - 1) :
    LET pending == \E tm \in timers : tm.timerId = h
        runs == CopiesIn(h, timerLog.fired)
        removed == h \in timerLog.removed
    IN  /\ runs <= 1
        /\ pending => (runs = 0 /\ ~removed)
        /\ removed => runs = 0
        /\ (~pending /\ ~removed) => runs = 1

\* C24 witness: one timer has expired and run triggerAlarm, the occurrence armed after
\* it was superseded by a later schedule for the same id, and a third one is pending.
C24_Witness ==
  /\ CopiesIn(1, timerLog.fired) = 1
  /\ 2 \in timerLog.removed
  /\ lastApi.op = "schedule"
  /\ \E tm \in timers : tm.timerId = 3 /\ tm.alarm.id = lastApi.alarm.id
  /\ Len(activeAlarms) = 1
(***************************************************************************)
(* Properties of confirm and ignore (SpecSession).                          *)
(***************************************************************************)
\* C25: the steps of a confirmation (Wake Up, the dismissal after the sleep-feeling
\* choice) and of an ignore, and the completion of their dismissAlarm calls, leave
\* the registry, the pending timers and the handle counter as they were.
C25_ConfirmIgnoreKeepRegistry ==
  [][(\/ HandleWakeUp
      \/ FeelTimerFire
      \/ HandleIgnoreAlarm
      \/ \E i \in 1 .. Len(inflight) :
           inflight[i].kind = "dismiss" /\ (putCall(i) \/ rejectCall(i))) =>
       UNCHANGED <<activeAlarms, timers, nextTimerId>>]_vars

\* C25 witness: a session was confirmed, its score update is stored, and the registry
\* holds the occurrence armed when the alarm fired, with its timer pending.
C25_Witness ==
  /\ session >= 1
  /\ ended[session] = "confirm"
  /\ inflight = <<>>
  /\ lastWrite.healthChange = WakeDelta
  /\ Len(activeAlarms) = 1
  /\ activeAlarms[1].alarm.snoozed = 0
  /\ activeAlarms[1].scheduledTime > now
  /\ \E tm \in timers : tm.timerId = activeAlarms[1].timerId

(***************************************************************************)
(* Properties of the alarm audio (SpecAudio).  Where the display callback   *)
(* runs on every firing, session n has the audio handle n.                  *)
(***************************************************************************)
\* C26: the audio of a session that was ended by confirm, snooze or ignore is not
\* playing, in every state after the transition.
C26_StoppedAudioStaysSilent ==
  ~createThrows =>
    \A sid \in 1 .. session :
      ended[sid] \in {"confirm", "snooze", "ignore"} => sid \notin playing

\* C27: at most one alarm audio is playing at any time (stated for a browser whose
\* Notification constructor does not throw, where every firing reaches the display).
C27_OneAudioPlaying ==
  ~createThrows => Cardinality(playing) <= 1

(***************************************************************************)
(* Properties of the display's state at fire time (SpecRing).               *)
(***************************************************************************)
\* C28: the step that creates a session leaves the display in the initial sub-state
\* with the tap counter at 50.
C28_SessionStartsInitial ==
  [][session' = session + 1 => (displayState' = "initial" /\ tapCount' = TapStart)]_vars
(***************************************************************************)
(* Properties of the order of triggerAlarm's steps (SpecNotify).            *)
(***************************************************************************)
\* C29: the step in which a timer expires has invoked the display callback with the
\* alarm and the new audio handle before the announcement was started, and while the
\* audio's play attempts, the announcement and the permission prompt are all still
\* unsettled.
C29_CallbackBeforeSlowSteps ==
  [][nextAudio' = nextAudio + 1 =>
       /\ \E i \in 1 .. Len(lastTrigger'.steps) :
            /\ lastTrigger'.steps[i] = "callback"
            /\ \A j \in 1 .. Len(lastTrigger'.steps) : lastTrigger'.steps[j] = "speak" => i < j
       /\ \E tm \in timers \ timers' : activeAlarm' = tm.alarm
       /\ alarmAudio' = nextAudio
       /\ playAttemptsOf(nextAudio) \cup {speechOf(nextAudio)} \subseteq deferred'
       /\ permission' = permission]_vars

\* C30: when the announcement of a firing fails, nothing but the pending announcement
\* changes: the session on display, its audio handle, what is playing and the registry
\* are as before; the firing it belongs to has invoked the display callback and armed
\* the next occurrence.
C30_SpeechFailureChangesNothing ==
  [][\A attempt \in deferred, outcome \in SpeechFailures :
       speechSettles(attempt, outcome) =>
         /\ UNCHANGED <<activeAlarm, alarmAudio, displayState, tapCount, playing, session,
                        ended, activeAlarms, timers, nextTimerId>>
         /\ attempt.audio = nextAudio - 1 => (lastTrigger.callback /\ lastTrigger.rearmed)]_vars

\* C30 witness: the announcement of the firing on display has settled, the session is
\* still open with its audio playing, and the next occurrence is armed.
C30_Witness ==
  /\ activeAlarm # NoAlarm
  /\ alarmAudio = nextAudio - 1
  /\ alarmAudio \in playing
  /\ speechOf(alarmAudio) \notin deferred
  /\ lastTrigger.callback
  /\ \E i \in 1 .. Len(activeAlarms) :
       /\ activeAlarms[i].id = activeAlarm.id
       /\ activeAlarms[i].scheduledTime > now
       /\ \E tm \in timers : tm.timerId = activeAlarms[i].timerId
(***************************************************************************)
(* Properties of the test trigger (SpecManual).                             *)
(***************************************************************************)
\* C31: triggerAlarm called on an alarm marked manually triggered, or on an alarm
\* without id, leaves the registry, every pending timer and the handle counter
\* unchanged, creates the audio handle with its play attempts, and invokes the
\* display callback with the alarm and that handle.
C31_ManualTriggerKeepsRegistry ==
  [][\A alarm \in ManualAlarms :
       triggerCall(alarm) =>
         /\ UNCHANGED <<activeAlarms, timers, nextTimerId>>
         /\ nextAudio' = nextAudio + 1
         /\ playAttemptsOf(nextAudio) \subseteq deferred'
         /\ activeAlarm' = alarm
         /\ alarmAudio' = nextAudio]_vars
(***************************************************************************)
(* Properties of the audio source (SpecSource).                             *)
(***************************************************************************)
\* C32: every audio element starts with the requested sound; the default sound is
\* set only in the step in which the requested sound fails to load, the tone is
\* started only in the step in which the default sound fails to load; and a load
\* failure changes neither the session on display and its audio handle nor the
\* registry, its timers, or what the firing has done.
C32_SourceFallbackChain ==
  [][/\ nextAudio' = nextAudio + 1 => loadOf(nextAudio, "requested") \in deferred'
     /\ \A audio \in 1 .. nextAudio :
          /\ loadOf(audio, "default") \in deferred' \ deferred =>
               /\ loadOf(audio, "requested") \in deferred \ deferred'
               /\ nextAudio' = nextAudio
          /\ loadOf(audio, "tone") \in deferred' \ deferred =>
               /\ loadOf(audio, "default") \in deferred \ deferred'
               /\ nextAudio' = nextAudio
     /\ \A attempt \in deferred, outcome \in {"error", "no tone"} :
          sourceSettles(attempt, outcome) =>
            UNCHANGED <<activeAlarm, alarmAudio, session, ended, displayState,
                        activeAlarms, timers, nextTimerId, lastTrigger>>]_vars

\* C32 witness: both sounds of the audio on display have failed and the tone is
\* sounding, while the session is on display and its next occurrence is armed.
C32_Witness ==
  /\ activeAlarm # NoAlarm
  /\ alarmAudio = nextAudio - 1
  /\ loadOf(alarmAudio, "tone") \in deferred
  /\ lastTrigger.callback
  /\ \E i \in 1 .. Len(activeAlarms) :
       /\ activeAlarms[i].id = activeAlarm.id
       /\ activeAlarms[i].scheduledTime > now
       /\ \E tm \in timers : tm.timerId = activeAlarms[i].timerId
(***************************************************************************)
(* Properties of the volume ramp (SpecVolume).                              *)
(***************************************************************************)
\* C33: an element created for an alarm with gradual volume starts at 10% with its
\* ramp timer running, any other element starts at exactly 1.0 without a timer;
\* each ramp tick raises the volume by 10% while it is below 100%, and the tick
\* that finds it at 100% clears the timer and leaves the volume alone, whether or
\* not the session has been dismissed; no volume ever exceeds 1.0, and a level
\* differs from its tenth by less than 2^-52.
C33_VolumeRamp ==
  [][/\ \A tm \in timers :
          triggerAlarm(tm, createThrows) =>
            IF tm.alarm.gradual
            THEN /\ percentOf(volume'[nextAudio]) = 10
                 /\ \E attempt \in deferred' : attempt.kind = "ramp" /\ attempt.audio = nextAudio
            ELSE /\ volume'[nextAudio] = One
                 /\ \A attempt \in deferred' : attempt.kind = "ramp" => attempt.audio # nextAudio
     /\ \A attempt \in deferred :
          rampTick(attempt) =>
            LET audio == attempt.audio
            IN  IF percentOf(volume[audio]) < 100
                THEN /\ percentOf(volume'[audio]) = percentOf(volume[audio]) + 10
                     /\ \E next \in deferred' : next.kind = "ramp" /\ next.audio = audio
                ELSE /\ volume'[audio] = volume[audio]
                     /\ \A next \in deferred' : next.kind = "ramp" => next.audio # audio
     /\ \A audio \in 1 .. Len(volume') :
          /\ leq1(volume'[audio])
          /\ percentOf(volume'[audio]) \in 10 .. 100
          /\ volume'[audio].e \in -159 .. 159]_vars

\* C33 witness: a ramp has gone all the way to 100% and its timer has stopped, on an
\* element whose session was snoozed meanwhile.
C33_Witness ==
  /\ ~createThrows
  /\ \E audio \in 1 .. Len(volume) :
       /\ percentOf(volume[audio]) = 100
       /\ volume[audio] # One
       /\ \A attempt \in deferred : attempt.kind = "ramp" => attempt.audio # audio
       /\ ended[audio] = "snooze"
(***************************************************************************)
(* Properties of the idempotency guard (SpecGuard).                         *)
(***************************************************************************)
\* C34: scheduleAlarm called with a version of an alarm that agrees with the armed
\* snapshot on id, time, days and enabled, at an instant for which the resolver
\* gives the armed fire instant, leaves the registry entry, its timer and the
\* snapshot in both unchanged, whatever the other fields of the new version are; and
\* every firing displays the snapshot its timer was armed with.
C34_GuardKeepsOlderSnapshot ==
  [][/\ \A alarm \in VariantAlarms :
          (scheduleCall(alarm) /\ alreadyArmed(Sched, alarm, now)) =>
             UNCHANGED <<activeAlarms, timers, nextTimerId>>
     /\ \A tm \in timers :
          (triggerAlarm(tm, createThrows) /\ ~createThrows) => activeAlarm' = tm.alarm]_vars

\* C34 witness: the last call scheduled a version with other settings than the armed
\* snapshot and was a no-op, the pending timer still carries the older snapshot, and
\* a firing has displayed the older snapshot.
C34_Witness ==
  /\ lastApi.op = "schedule"
  /\ lastApi.armed
  /\ ~lastApi.changed
  /\ \E tm \in timers :
       /\ tm.alarm.id = lastApi.alarm.id
       /\ tm.alarm.gradual # lastApi.alarm.gradual
       /\ tm.alarm.snoozeTime # lastApi.alarm.snoozeTime
       /\ activeAlarm = tm.alarm
(***************************************************************************)
(* Registry and timer table (SpecApi).                                      *)
(***************************************************************************)
\* C35: in every state each pending alarm timer has a registry entry that records
\* its handle, and each registry entry records the handle of a timer that is still
\* pending (neither run nor cleared).
C35_TimersMatchRegistry ==
  /\ \A tm \in timers :
       \E i \in 1 .. Len(activeAlarms) : activeAlarms[i].timerId = tm.timerId
  /\ \A i \in 1 .. Len(activeAlarms) :
       \E tm \in timers : tm.timerId = activeAlarms[i].timerId
(***************************************************************************)
(* Overlapping score updates (SpecHealth).                                  *)
(***************************************************************************)
\* C36: when an update stores its score after another update that had read the same
\* stored score (the two overlapped: each read before the other wrote), the score it
\* stores is what the two single updates give one after the other, in one of the two
\* orders, from the score both had read.
C36_NoLostUpdate ==
  [][\A i \in 1 .. Len(inflight) :
       (/\ putCall(i)
        /\ lastWrite.read = inflight[i].read
        /\ lastWrite.stored = plantHealth
        /\ lastWrite.healthChange \in Deltas) =>
          LET read == inflight[i].read
              first == lastWrite.healthChange
              second == inflight[i].healthChange
          IN  plantHealth' \in {newHealthOf(newHealthOf(read, first), second),
                                newHealthOf(newHealthOf(read, second), first)}]_vars
(***************************************************************************)
(* Recurrence (SpecNotify: schedules and expiries, nothing cancels).        *)
(***************************************************************************)
\* C37: every expiry of a timer armed for an enabled alarm with an id and an active
\* weekday leaves an occurrence of that id armed under a new pending timer whose
\* fire instant is strictly later than the instant of the firing, so that the alarm
\* fires again and again as time advances.
C37_FiringArmsLaterOccurrence ==
  [][\A tm \in timers :
       (/\ triggerAlarm(tm, createThrows)
        /\ tm.alarm.isEnabled
        /\ tm.alarm.id # NoId
        /\ ~tm.alarm.manual
        /\ tm.alarm.days # {}) =>
          \E i \in 1 .. Len(activeAlarms') :
            /\ activeAlarms'[i].id = tm.alarm.id
            /\ activeAlarms'[i].scheduledTime > now
            /\ \E next \in timers' :
                 /\ next.timerId = activeAlarms'[i].timerId
                 /\ next.timerId # tm.timerId
                 /\ next.due > now]_vars
(***************************************************************************)
(* The dashboard's lookup against the resolver (SpecLookup).                *)
(***************************************************************************)
\* C38: for every set of stored alarms and every instant, getNextAlarm returns an
\* enabled alarm whose getNextAlarmTime is least among the enabled alarms that have
\* one, and returns none exactly when no enabled alarm has an active weekday.
C38_LookupAgreesWithResolver ==
  probe.done =>
    LET instantOf(a) == getNextAlarmTime(a, probe.now)
        armable == {a \in db : a.isEnabled /\ instantOf(a) # nullTime}
    IN  IF armable = {}
        THEN probe.alarm = NoAlarm
        ELSE /\ probe.alarm \in armable
             /\ \A b \in armable : instantOf(probe.alarm) <= instantOf(b)

\* C38 witness: two enabled alarms with different next instants are stored, and the
\* lookup has returned the one of today's weekday in the coming week, its time of day
\* having passed today.
C38_Witness ==
  /\ probe.done
  /\ probe.alarm # NoAlarm
  /\ getDay(probe.now) \in probe.alarm.days
  /\ getNextAlarmTime(probe.alarm, probe.now) - probe.now > (DaysPerWeek - 1) * SecPerDay
  /\ \E b \in db :
       /\ b.isEnabled
       /\ getNextAlarmTime(b, probe.now) > getNextAlarmTime(probe.alarm, probe.now)
(***************************************************************************)
(* The snooze behaviour "once" (SpecOnce).                                  *)
(***************************************************************************)
\* The same alarm with the behaviour "repeat".
asRepeat(alarm) == [alarm EXCEPT !.snoozeBehavior = "repeat"]

====
